---- MODULE Spec2Model ----
(***************************************************************************)
(* Model of the ITC2021 XML-to-ASP-facts transcoder                        *)
(* (src/Code/itc2021_fact_parser.py): one run of main() on one input       *)
(* document.  Texts are sequences of one-character strings, so that         *)
(* splitting, stripping and integer conversion are computed rather than    *)
(* assumed.  An emitted line (a "fact") is a record; an integer formatted   *)
(* into a line by an f-string is kept as the integer.                      *)
(***************************************************************************)
EXTENDS Integers, Sequences, FiniteSets, TLC

\* ------------------------------------------------------------------ bounds
\* longest list of <team id=...> elements in the structural documents
MaxTeamIds == 3
\* longest list of <slot id=...> elements in the structural documents
MaxSlotIds == 3
\* largest identifier written in a structural document
MaxId == 2
\* longest sequence of constraint elements in a document
MaxElems == 3
\* longest text of a list-valued attribute drawn character by character
MaxText == 4

\* ------------------------------------------------------------------- texts
\* str.strip() removes white space; the only white-space character drawn is " "
WS == {" "}

DigitChars == <<"0", "1", "2", "3", "4", "5", "6", "7", "8", "9">>

DigitSet == {DigitChars[i] : i \in 1..10}

DigitVal(ch) == (CHOOSE i \in 1..10 : DigitChars[i] = ch) - 1

RECURSIVE lstrip(_)
lstrip(s) == IF s # <<>> /\ Head(s) \in WS THEN lstrip(Tail(s)) ELSE s

RECURSIVE rstrip(_)
rstrip(s) ==
    IF s # <<>> /\ s[Len(s)] \in WS THEN rstrip(SubSeq(s, 1, Len(s) - 1)) ELSE s

\* str.strip()
strip(s) == rstrip(lstrip(s))

\* index of the first occurrence of sep in s, 0 when there is none (str.find + 1)
find(s, sep) ==
    LET hits == {i \in 1..(Len(s) - Len(sep) + 1) : SubSeq(s, i, i + Len(sep) - 1) = sep}
    IN  IF hits = {} THEN 0 ELSE CHOOSE i \in hits : \A j \in hits : i <= j

\* sep in s
contains(s, sep) == find(s, sep) # 0

\* str.split(sep): every occurrence splits, left to right; empty pieces are kept
RECURSIVE split(_, _)
split(s, sep) ==
    LET i == find(s, sep)
    IN  IF i = 0 THEN <<s>>
        ELSE <<SubSeq(s, 1, i - 1)>> \o split(SubSeq(s, i + Len(sep), Len(s)), sep)

\* str.lower() on the letters a document uses
lowerChar(ch) ==
    CASE ch = "H" -> "h" [] ch = "A" -> "a" [] ch = "R" -> "r" [] ch = "D" -> "d"
      [] ch = "S" -> "s" [] ch = "O" -> "o" [] ch = "F" -> "f" [] ch = "T" -> "t"
      [] OTHER -> ch

\* faulty variant: the text is left as it is
lower_identity(s) == s

lower(s) == [i \in 1..Len(s) |-> lowerChar(s[i])]

\* int(s) accepts: white space, an optional sign, one or more digits, white space
intBody(s) ==
    LET t == strip(s)
    IN  IF t # <<>> /\ Head(t) \in {"+", "-"} THEN Tail(t) ELSE t

intOk(s) ==
    LET u == intBody(s) IN u # <<>> /\ \A i \in 1..Len(u) : u[i] \in DigitSet

RECURSIVE decimal(_)
decimal(u) ==
    IF u = <<>> THEN 0 ELSE 10 * decimal(SubSeq(u, 1, Len(u) - 1)) + DigitVal(u[Len(u)])

\* the value of int(s) when intOk(s)
intVal(s) ==
    LET t == strip(s)
    IN  IF t # <<>> /\ Head(t) = "-" THEN 0 - decimal(intBody(s)) ELSE decimal(intBody(s))

\* the result of a call: a value, or an exception raised
Ok(v) == [ok |-> TRUE, val |-> v, exc |-> "none"]

Raise(e) == [ok |-> FALSE, val |-> <<>>, exc |-> e]

\* faulty variant: the end of the range is left out
rangeList_exclusive(a, b) == [i \in 1..(b - a) |-> a + i - 1]

\* range(a, b + 1) as a list
rangeList(a, b) == [i \in 1..(b - a + 1) |-> a + i - 1]

\* faulty variant: empty tokens are not filtered out
NonBlank_all(x) == TRUE

NonBlank(x) == strip(x) # <<>>

\* parse_list: semicolon-separated integers; a token that is no integer raises
parse_list(text) ==
    IF text = <<>> \/ strip(text) = <<>> THEN Ok(<<>>)
    ELSE LET toks == SelectSeq(split(text, <<";">>), NonBlank)
         IN  IF \A i \in 1..Len(toks) : intOk(strip(toks[i]))
             THEN Ok([i \in 1..Len(toks) |-> intVal(strip(toks[i]))])
             ELSE Raise("ValueError")

\* parse_range: "a..b" expands; anything else goes to parse_list
parse_range(text) ==
    IF text = <<>> \/ strip(text) = <<>> THEN Ok(<<>>)
    ELSE LET t == strip(text)
             parts == split(t, <<".", ".">>)
         IN  IF contains(t, <<".", ".">>) /\ Len(parts) = 2
             THEN IF intOk(parts[1]) /\ intOk(parts[2])
                  THEN Ok(rangeList(intVal(parts[1]), intVal(parts[2])))
                  ELSE Raise("ValueError")
             ELSE parse_list(t)

\* faulty variant: the number of parts is not tested
MeetingToken_anycomma(m) == m # <<>> /\ contains(m, <<",">>)

\* the tokens of parse_meetings that reach the int() conversions
MeetingToken(m) == m # <<>> /\ contains(m, <<",">>) /\ Len(split(m, <<",">>)) = 2

\* parse_meetings: "h,a;h,a"; tokens without exactly one comma are skipped
parse_meetings(text) ==
    IF text = <<>> \/ strip(text) = <<>> THEN Ok(<<>>)
    ELSE LET raw == split(text, <<";">>)
             toks == SelectSeq([i \in 1..Len(raw) |-> strip(raw[i])], MeetingToken)
             home(m) == strip(split(m, <<",">>)[1])
             away(m) == strip(split(m, <<",">>)[2])
         IN  IF \A i \in 1..Len(toks) : intOk(home(toks[i])) /\ intOk(away(toks[i]))
             THEN Ok([i \in 1..Len(toks) |-> <<intVal(home(toks[i])), intVal(away(toks[i]))>>])
             ELSE Raise("ValueError")

\* --------------------------------------------------------------- documents
\* an XML attribute (or element text): absent, or present with a text
Absent == [present |-> FALSE, text |-> <<>>]

Present(t) == [present |-> TRUE, text |-> t]

\* Element.get(name, default); an element's attributes are a list of
\* <<name, text>> pairs, each name at most once
get(e, name, default) ==
    LET hits == {i \in 1..Len(e.attrs) : e.attrs[i][1] = name}
    IN  IF hits = {} THEN default ELSE e.attrs[CHOOSE i \in hits : TRUE][2]

\* an element with the attributes `given` and no other
El(tag, given) == [tag |-> tag, attrs |-> given]

\* root.findall('.//TAG'): the elements of that tag, in document order
findall(d, tag) == LET IsTag(e) == e.tag = tag IN SelectSeq(d.elems, IsTag)

\* faulty variant: the GA1 and BR1 calls exchanged
CallOrder_swapped == <<"ca1", "ca2", "ca3", "ca4", "br1", "ga1", "br2", "fa2", "se1">>

\* the nine categories, in the order parse_xml_file calls their methods
CallOrder == <<"ca1", "ca2", "ca3", "ca4", "ga1", "br1", "br2", "fa2", "se1">>

Categories == {CallOrder[i] : i \in 1..Len(CallOrder)}

\* the element tag each method searches for
Tag(c) ==
    CASE c = "ca1" -> "CA1" [] c = "ca2" -> "CA2" [] c = "ca3" -> "CA3"
      [] c = "ca4" -> "CA4" [] c = "ga1" -> "GA1" [] c = "br1" -> "BR1"
      [] c = "br2" -> "BR2" [] c = "fa2" -> "FA2" [] c = "se1" -> "SE1"

HARD == <<"H", "A", "R", "D">>

SOFT == <<"S", "O", "F", "T">>

P(name, default, quoted) == [name |-> name, default |-> default, quoted |-> quoted]

\* the parameter statements of a category, in emission order, with the default
\* each .get() names; quoted parameters are written between double quotes
Params(c) ==
    CASE c = "ca1" ->
           <<P("type", HARD, FALSE), P("max", <<"0">>, FALSE), P("min", <<"0">>, FALSE),
             P("mode", <<"H">>, TRUE), P("penalty", <<"1">>, FALSE)>>
      [] c \in {"ca2", "ca4"} ->
           <<P("type", HARD, FALSE), P("max", <<"0">>, FALSE), P("min", <<"0">>, FALSE),
             P("mode1", <<"H">>, TRUE), P("mode2", <<"G", "L", "O", "B", "A", "L">>, TRUE),
             P("penalty", <<"1">>, FALSE)>>
      [] c = "ca3" ->
           <<P("type", HARD, FALSE), P("max", <<"0">>, FALSE), P("min", <<"0">>, FALSE),
             P("mode1", <<"H">>, TRUE), P("mode2", <<"S", "L", "O", "T", "S">>, TRUE),
             P("intp", <<"1">>, FALSE), P("penalty", <<"1">>, FALSE)>>
      [] c = "ga1" ->
           <<P("type", HARD, FALSE), P("max", <<"1">>, FALSE), P("min", <<"0">>, FALSE),
             P("penalty", <<"1">>, FALSE)>>
      [] c = "br1" ->
           <<P("type", HARD, FALSE), P("intp", <<"0">>, FALSE),
             P("mode1", <<"L", "E", "Q">>, TRUE), P("mode2", <<"H", "A">>, TRUE),
             P("penalty", <<"1">>, FALSE)>>
      [] c = "br2" ->
           <<P("type", HARD, FALSE), P("intp", <<"0">>, FALSE),
             P("homeMode", <<"H", "A">>, TRUE), P("mode2", <<"L", "E", "Q">>, TRUE),
             P("penalty", <<"1">>, FALSE)>>
      [] c = "fa2" ->
           <<P("type", SOFT, FALSE), P("intp", <<"1">>, FALSE), P("penalty", <<"1">>, FALSE)>>
      [] c = "se1" ->
           <<P("type", SOFT, FALSE), P("min", <<"1">>, FALSE), P("penalty", <<"1">>, FALSE)>>

L(attr, grammar) == [attr |-> attr, grammar |-> grammar]

\* the list-valued attributes of a category, in emission order, with the
\* function that parses each
Lists(c) ==
    CASE c = "ca1" -> <<L("teams", "range"), L("slots", "list")>>
      [] c \in {"ca2", "ca4"} ->
           <<L("teams1", "range"), L("teams2", "range"), L("slots", "list")>>
      [] c = "ca3" -> <<L("teams1", "range"), L("teams2", "range")>>
      [] c = "ga1" -> <<L("meetings", "meetings"), L("slots", "list")>>
      [] c = "br1" -> <<L("teams", "range"), L("slots", "list")>>
      [] c \in {"br2", "fa2"} -> <<L("teams", "range"), L("slots", "range")>>
      [] c = "se1" -> <<L("teams", "range")>>

ParseBy(grammar, text) ==
    CASE grammar = "range" -> parse_range(text)
      [] grammar = "list" -> parse_list(text)
      [] grammar = "meetings" -> parse_meetings(text)

\* ------------------------------------------------------------------- facts
\* one line of self.facts.  kind: "comment", "blank" or "stmt".  A statement
\* pred(...) carries its constraint identifier cat_cid (cid 0: none), the
\* parameter name, the integers formatted into it and the text copied into it.
Line(kind, pred, cat, cid, name, ints, text, quoted) ==
    [kind |-> kind, pred |-> pred, cat |-> cat, cid |-> cid, name |-> name,
     ints |-> ints, text |-> text, quoted |-> quoted]

Comment(which) == Line("comment", which, "", 0, "", <<>>, <<>>, FALSE)

Blank == Line("blank", "", "", 0, "", <<>>, <<>>, FALSE)

\* team(3).  num_teams(4).  team(0..3) is pred "team_range" with ints <<0, 3>>
Stmt(pred, ints) == Line("stmt", pred, "", 0, "", ints, <<>>, FALSE)

\* ca1_param(ca1_1, max, 2).
ParamFact(c, id, name, text, quoted) == Line("stmt", "param", c, id, name, <<>>, text, quoted)

\* faulty variant: the membership statements carry the identifier before this one
MemberFact_stale(c, id, attr, ints) == Line("stmt", "member", c, id - 1, attr, ints, <<>>, FALSE)

\* ca1_teams(ca1_1, 0).   ga1_meetings(ga1_1, 0, 1).
MemberFact(c, id, attr, ints) == Line("stmt", "member", c, id, attr, ints, <<>>, FALSE)

\* ------------------------------------------------------------------- state
VARIABLES
    doc,                  \* the input: what ET.parse(args.input) finds
    pc,                   \* where main() is
    facts,                \* ITC2021Parser.facts
    constraint_counters,  \* ITC2021Parser.constraint_counters
    outStatus,            \* the output file: "untouched", "truncated", "written"
    outLines,             \* the lines of the output file once written
    exitCode,             \* the process exit status, -1 while running
    err,                  \* the exception that ended the run, "none" if none
    json_file,            \* asp_to_xml: the solver result file given to process_json_file
    apc,                  \* asp_to_xml: "idle", "call" or "returned"
    solution_data,        \* asp_to_xml: what process_json_file returned
    json_files,           \* asp_to_xml: the files convert_all_results found
    file_index,           \* asp_to_xml: how many of them the loop has taken
    successful,           \* asp_to_xml: convert_all_results' counter
    failed,               \* asp_to_xml: convert_all_results' counter
    xml_solutions,        \* asp_to_xml: the files written to the output directory
    converted,            \* asp_to_xml: what convert_json_to_xml returned
    cpc,                  \* analyze_results and validate_xml reading json_file: where the run is
    analysis_results,     \* analyze_results: the rows of process_json_results
    solution_name,        \* validate_xml: what extract_instance_from_solution_name returned
    cost_lookup,          \* validate_xml: extract_asp_cost_from_json's file name and result
    vpc,                  \* validate_xml: where validate_single_xml is
    robinx,               \* validate_xml: how the run of the validator ends
    validation_result,    \* validate_xml: what validate_single_xml returned
    ppc,                  \* process_all: where main is
    required_paths,       \* process_all: the required paths that exist
    script_runs,          \* process_all: how a run of each script ends
    steps_started,        \* process_all: the scripts run so far, in order
    successful_steps,     \* process_all: main's counter
    directories,          \* process_all: the output directories created
    report,               \* process_all: whether pipeline_report.txt is written
    main_return,          \* process_all: what main returned
    spc,                  \* validate_sa_xml: where validate_sa_xml_files is
    xml_files,            \* validate_sa_xml: the files found and how the validator ends on each
    sa_index,             \* validate_sa_xml: how many of them the loop has taken
    instance_name,        \* validate_sa_xml: the local variable, unbound at first
    results               \* validate_sa_xml: the result rows

\* the state of itc2021_fact_parser.py and the state of asp_to_xml.py
parserVars == <<doc, pc, facts, constraint_counters, outStatus, outLines, exitCode, err>>

aspVars == <<json_file, apc, solution_data>>

\* the rest of the state of asp_to_xml.py, and the state of the other scripts
convertVars == <<json_files, file_index, successful, failed, xml_solutions, converted>>

costVars == <<cpc, analysis_results, solution_name, cost_lookup>>

validateVars == <<vpc, robinx, validation_result>>

pipelineVars ==
    <<ppc, required_paths, script_runs, steps_started, successful_steps, directories,
      report, main_return>>

saVars == <<spc, xml_files, sa_index, instance_name, results>>

vars == <<doc, pc, facts, constraint_counters, outStatus, outLines, exitCode, err,
          json_file, apc, solution_data,
          json_files, file_index, successful, failed, xml_solutions, converted,
          cpc, analysis_results, solution_name, cost_lookup,
          vpc, robinx, validation_result,
          ppc, required_paths, script_runs, steps_started, successful_steps, directories,
          report, main_return,
          spc, xml_files, sa_index, instance_name, results>>

\* what the actions of one script leave as it is
outsideParser == <<aspVars, convertVars, costVars, validateVars, pipelineVars, saVars>>

outsideAsp == <<parserVars, costVars, validateVars, pipelineVars, saVars>>

outsideCosts == <<parserVars, aspVars, convertVars, validateVars, pipelineVars, saVars>>

outsideValidate == <<parserVars, aspVars, convertVars, costVars, pipelineVars, saVars>>

outsidePipeline == <<parserVars, aspVars, convertVars, costVars, validateVars, saVars>>

outsideSa == <<parserVars, aspVars, convertVars, costVars, validateVars, pipelineVars>>

\* -------------------------------------------------------------- operations
\* faulty variant: one counter shared by all categories
get_constraint_id_shared(counters, c) == [k \in DOMAIN counters |-> counters[k] + 1]

\* get_constraint_id: the counters after the call; the identifier returned is
\* the category's new counter value
get_constraint_id(counters, c) == [counters EXCEPT ![c] = @ + 1]

\* the list-valued attributes k.. of element e: one membership statement per
\* parsed element; a parse that raises ends the run with the statements so far
RECURSIVE emit_lists(_, _, _, _, _)
emit_lists(fs, c, id, e, k) ==
    IF k > Len(Lists(c)) THEN [facts |-> fs, exc |-> "none"]
    ELSE LET l == Lists(c)[k]
             r == ParseBy(l.grammar, get(e, l.attr, <<>>))
             member(x) == MemberFact(c, id, l.attr, IF l.grammar = "meetings" THEN x ELSE <<x>>)
         IN  IF ~r.ok THEN [facts |-> fs, exc |-> r.exc]
             ELSE emit_lists(fs \o [i \in 1..Len(r.val) |-> member(r.val[i])], c, id, e, k + 1)

\* faulty variant: the attribute is never read, the default always written
param_value_default_only(e, p) ==
    IF p.name = "type" THEN lower(get(e, p.name, p.default)) ELSE p.default

\* the value a parameter statement carries: the attribute or its default; the
\* type is lower-cased
param_value(e, p) ==
    IF p.name = "type" THEN lower(get(e, p.name, p.default)) ELSE get(e, p.name, p.default)

\* the body of the loop of a parse_<category>_constraints method, for element e
parse_element(st, c, e) ==
    LET counters == get_constraint_id(st.counters, c)
        id == counters[c]
        ps == Params(c)
        params == [i \in 1..Len(ps) |-> ParamFact(c, id, ps[i].name, param_value(e, ps[i]), ps[i].quoted)]
        r == emit_lists(st.facts \o params, c, id, e, 1)
    IN  [facts |-> r.facts, counters |-> counters, exc |-> r.exc]

\* a parse_<category>_constraints method: the loop over the elements found
RECURSIVE parse_elements(_, _, _)
parse_elements(st, c, es) ==
    IF es = <<>> \/ st.exc # "none" THEN st
    ELSE parse_elements(parse_element(st, c, Head(es)), c, Tail(es))

parse_constraints(st, c, d) == parse_elements(st, c, findall(d, Tag(c)))

\* int(x.get('id')) for the elements of a section, in order, up to the first
\* one that raises: a missing id is int(None), a TypeError
RECURSIVE read_ids(_, _)
read_ids(attrs, ids) ==
    IF attrs = <<>> THEN [val |-> ids, exc |-> "none"]
    ELSE LET a == Head(attrs)
         IN  IF ~a.present THEN [val |-> ids, exc |-> "TypeError"]
             ELSE IF ~intOk(a.text) THEN [val |-> ids, exc |-> "ValueError"]
             ELSE read_ids(Tail(attrs), Append(ids, intVal(a.text)))

seqMax(ids) == CHOOSE m \in {ids[i] : i \in 1..Len(ids)} : \A i \in 1..Len(ids) : ids[i] <= m

seqMin(ids) == CHOOSE m \in {ids[i] : i \in 1..Len(ids)} : \A i \in 1..Len(ids) : m <= ids[i]

\* the range test of parse_basic_structure
is_run(ids) == seqMin(ids) = 0 /\ seqMax(ids) = Len(ids) - 1

\* the Teams block and the Slots block of parse_basic_structure: a statement
\* per element while reading, then the count, then the range or a statement
\* per element
id_block(fs, section, pred, numPred, rangePred) ==
    IF ~section.present THEN [facts |-> fs, exc |-> "none"]
    ELSE LET r == read_ids(section.ids, <<>>)
             ids == r.val
             each == [i \in 1..Len(ids) |-> Stmt(pred, <<ids[i]>>)]
         IN  IF r.exc # "none" THEN [facts |-> fs \o each, exc |-> r.exc]
             ELSE IF ids = <<>> THEN [facts |-> fs, exc |-> "none"]
             ELSE [facts |-> fs \o each \o <<Stmt(numPred, <<Len(ids)>>)>>
                              \o (IF is_run(ids) THEN <<Stmt(rangePred, <<0, seqMax(ids)>>)>>
                                  ELSE each),
                   exc |-> "none"]

\* the Format block: 'phased.' when gameMode's text is exactly "P"
\* faulty variant: the text of the gameMode element is not compared
format_block_any(fs, format) ==
    IF format.present /\ format.gameMode.present
    THEN Append(fs, Stmt("phased", <<>>))
    ELSE fs

format_block(fs, format) ==
    IF format.present /\ format.gameMode.present /\ format.gameMode.text = <<"P">>
    THEN Append(fs, Stmt("phased", <<>>))
    ELSE fs

parse_basic_structure(fs, d) ==
    LET t == id_block(fs, d.teams, "team", "num_teams", "team_range")
        s == id_block(t.facts, d.slots, "slot", "num_slots", "slot_range")
    IN  IF t.exc # "none" THEN t
        ELSE IF s.exc # "none" THEN s
        ELSE [facts |-> format_block(s.facts, d.format), exc |-> "none"]

\* ------------------------------------------------------------------ inputs
SeqsUpTo(S, n) == UNION {[1..k -> S] : k \in 0..n}

Section(ids) == [present |-> TRUE, ids |-> ids]

NoSection == [present |-> FALSE, ids |-> <<>>]

NoFormat == [present |-> FALSE, gameMode |-> Absent]

Format(mode) == [present |-> TRUE, gameMode |-> mode]

Doc(status, teams, slots, format, elems) ==
    [status |-> status, teams |-> teams, slots |-> slots, format |-> format, elems |-> elems]

IdsOf(lo, hi) == [i \in 1..(hi - lo + 1) |-> Present(<<DigitChars[lo + i]>>)]

\* an id attribute: missing, or one digit
IdAttrs == {Absent} \cup {Present(<<DigitChars[i + 1]>>) : i \in 0..MaxId}

\* a section as the other section varies: none, a 0-based run, not a run
SectionSamples == {NoSection, Section(IdsOf(0, 1)), Section(IdsOf(1, 1))}

Formats ==
    {NoFormat, Format(Absent), Format(Present(<<"P">>)), Format(Present(<<"R">>)),
     Format(Present(<<>>)), Format(Present(<<"p">>)), Format(Present(<<" ", "P">>))}

\* the scenario: teams 0..3, slots 0..5, one CA1 with teams, slots and max
ScenarioTeams == Section(IdsOf(0, 3))

ScenarioSlots == Section(IdsOf(0, 5))

ScenarioCA1 ==
    El("CA1", <<<<"teams", <<"0", ".", ".", "3">>>>, <<"slots", <<"0", ";", "1">>>>, <<"max", <<"2">>>>>>)

ScenarioDoc == Doc("ok", ScenarioTeams, ScenarioSlots, NoFormat, <<ScenarioCA1>>)

\* an element of each category with no attribute at all
BareElems == {El(Tag(c), <<>>) : c \in Categories}

ElemSamples ==
    BareElems \cup
    {El("SE1", <<<<"type", <<"H", "a", "r", "d">>>>, <<"penalty", <<"5">>>>, <<"teams", <<"0", ";", "2">>>>>>)}

TextAlphabet == {"0", "1", ";", ",", "."}

Texts == SeqsUpTo(TextAlphabet, MaxText)

\* documents whose team list or slot list is any list of id attributes
StructDocs ==
    {Doc("ok", Section(t), s, NoFormat, <<>>) :
        t \in SeqsUpTo(IdAttrs, MaxTeamIds), s \in SectionSamples}
    \cup
    {Doc("ok", t, Section(s), NoFormat, <<>>) :
        t \in SectionSamples, s \in SeqsUpTo(IdAttrs, MaxSlotIds)}

FormatDocs == {Doc("ok", ScenarioTeams, ScenarioSlots, f, <<>>) : f \in Formats}

\* documents with any sequence of sample constraint elements
ConstraintDocs ==
    {Doc("ok", Section(IdsOf(0, 1)), Section(IdsOf(0, 1)), NoFormat, es) :
        es \in SeqsUpTo(ElemSamples, MaxElems)}

\* longer texts of interest: a range of three parts, pair lists with a token
\* that has no comma or two commas
RangeSamples == {<<"0", ".", ".", "1", ".", ".", "2">>, <<"3", ".", ".", "6">>}

\* lists with blanks around the tokens, empty tokens and a trailing semicolon
ListSamples ==
    {<<"2", ";", "5", ";", "7">>, <<" ", "1", "2", " ", ";", " ", "3", ";">>, <<" ", " ">>}

ListAlphabet == {"0", "1", ";", " "}

MeetingSamples ==
    {<<"0", ";", "0", ",", "1">>, <<"0", ",", "1", ",", "0", ";", "1", ",", "0">>,
     <<"1", ",", "2", ";", "3", ",", "4">>}

\* documents with one element whose list-valued attribute is any text
TextDocs ==
    {Doc("ok", NoSection, NoSection, NoFormat, <<El("CA1", <<<<"teams", t>>>>)>>) :
        t \in Texts \cup RangeSamples}
    \cup {Doc("ok", NoSection, NoSection, NoFormat, <<El("CA1", <<<<"slots", t>>>>)>>) :
        t \in Texts \cup SeqsUpTo(ListAlphabet, MaxText) \cup ListSamples}
    \cup {Doc("ok", NoSection, NoSection, NoFormat, <<El("GA1", <<<<"meetings", t>>>>)>>) :
        t \in Texts \cup MeetingSamples}

\* the value a parameter attribute carries when a document states it
SampleValue(name) ==
    IF name \in {"mode", "mode1", "mode2", "homeMode"} THEN <<"A">> ELSE <<"7">>

TypeSamples == {<<"H", "a", "r", "d">>, <<"S", "O", "F", "T">>}

\* the elements of category c that state any subset of its parameters
ParamElems(c) ==
    LET ps == Params(c)
        all == [i \in 1..(Len(ps) - 1) |-> <<ps[i + 1].name, SampleValue(ps[i + 1].name)>>]
        stated(S) == LET In(a) == a[1] \in S IN SelectSeq(all, In)
    IN  {El(Tag(c), ty \o stated(S)) :
            ty \in {<<>>} \cup {<<<<"type", t>>>> : t \in TypeSamples},
            S \in SUBSET {all[i][1] : i \in 1..Len(all)}}

\* documents with one element that states any subset of its parameters
ParamDocs ==
    UNION {{Doc("ok", NoSection, NoSection, NoFormat, <<e>>) : e \in ParamElems(c)} : c \in Categories}

\* the text a list-valued attribute carries when a document states it
SampleList(attr) ==
    CASE attr = "teams" -> <<"0", ".", ".", "1">>
      [] attr = "teams1" -> <<"0", ";", "1">>
      [] attr = "teams2" -> <<"1">>
      [] attr = "slots" -> <<"1", ";", "0">>
      [] attr = "meetings" -> <<"0", ",", "1", ";", "1", ",", "0">>

\* the element of category c that states every list-valued attribute
FullElem(c) == El(Tag(c), [i \in 1..Len(Lists(c)) |-> <<Lists(c)[i].attr, SampleList(Lists(c)[i].attr)>>])

\* documents with records that have membership statements: two elements of one
\* category, and elements of one category around one of another
ListDocs ==
    UNION {{Doc("ok", NoSection, NoSection, NoFormat, es) :
                es \in {<<FullElem(c)>>, <<FullElem(c), FullElem(c)>>,
                        <<FullElem(c), El(Tag(c), <<>>)>>, <<El(Tag(c), <<>>), FullElem(c)>>}} :
           c \in Categories}
    \cup {Doc("ok", NoSection, NoSection, NoFormat, <<FullElem("ga1"), FullElem("ca1"), FullElem("ga1")>>)}

\* inputs ET.parse cannot read: no such file, not well-formed XML, or a file
\* that cannot be opened for another reason
BadDocs ==
    {Doc(s, NoSection, NoSection, NoFormat, <<>>) : s \in {"missing", "malformed", "unreadable"}}

\* ----------------------------------------------------------------- actions
\* ITC2021Parser(): counters at 0, no facts
\* Python's None, and a value that is not None
None == [some |-> FALSE]

Some(v) == [some |-> TRUE, val |-> v]

\* no solver result file: asp_to_xml.py is not running
NoJsonFile == [status |-> "none"]

\* a script that is not running
AspIdle ==
    /\ json_file = NoJsonFile
    /\ apc = "idle"
    /\ solution_data = None
    /\ json_files = <<>>
    /\ file_index = 0
    /\ successful = 0
    /\ failed = 0
    /\ xml_solutions = <<>>
    /\ converted = "none"

CostsIdle ==
    /\ cpc = "idle"
    /\ analysis_results = <<>>
    /\ solution_name = None
    /\ cost_lookup = None

ValidateIdle ==
    /\ vpc = "idle"
    /\ robinx = "none"
    /\ validation_result = None

PipelineIdle ==
    /\ ppc = "idle"
    /\ required_paths = {}
    /\ script_runs = <<>>
    /\ steps_started = <<>>
    /\ successful_steps = 0
    /\ directories = {}
    /\ report = FALSE
    /\ main_return = None

SaIdle ==
    /\ spc = "idle"
    /\ xml_files = <<>>
    /\ sa_index = 0
    /\ instance_name = None
    /\ results = <<>>

\* faulty variant: the counters and the fact list are those an earlier parser left
ITC2021Parser_carried ==
    [constraint_counters |-> [c \in Categories |-> 1], facts |-> <<Blank>>]

\* ITC2021Parser(): the attributes __init__ gives a new parser
ITC2021Parser == [constraint_counters |-> [c \in Categories |-> 0], facts |-> <<>>]

Init ==
    /\ \/ doc \in StructDocs
       \/ doc \in FormatDocs
       \/ doc \in ConstraintDocs
       \/ doc = ScenarioDoc
       \/ doc \in ParamDocs
       \/ doc \in ListDocs
       \/ doc \in TextDocs
       \/ doc \in BadDocs
    /\ pc = "start"
    /\ facts = ITC2021Parser.facts
    /\ constraint_counters = ITC2021Parser.constraint_counters
    /\ outStatus = "untouched"
    /\ outLines = <<>>
    /\ exitCode = -1
    /\ err = "none"
    /\ AspIdle /\ CostsIdle /\ ValidateIdle /\ PipelineIdle /\ SaIdle

\* faulty variant: the process ends with status 0
Abort_status0(e) ==
    /\ pc' = "exited"
    /\ exitCode' = 0
    /\ err' = e

\* the process ends with status 1: sys.exit(1), or an exception nobody catches
Abort(e) ==
    /\ pc' = "exited"
    /\ exitCode' = 1
    /\ err' = e

\* faulty variant: the except clauses report the error and return to main
OpenDocument_NoExit ==
    /\ pc = "start"
    /\ \/ /\ doc.status = "ok"
          /\ facts' = facts \o <<Comment("header"), Blank, Comment("Basic structure")>>
          /\ pc' = "structure"
       \/ /\ doc.status # "ok"
          /\ pc' = "parsed"
          /\ UNCHANGED facts
    /\ UNCHANGED <<doc, constraint_counters, outStatus, outLines, exitCode, err>>
    /\ UNCHANGED outsideParser

\* parse_xml_file, up to the call of parse_basic_structure
OpenDocument ==
    /\ pc = "start"
    /\ \/ /\ doc.status = "ok"
          /\ facts' = facts \o <<Comment("header"), Blank, Comment("Basic structure")>>
          /\ pc' = "structure"
          /\ UNCHANGED <<exitCode, err>>
       \/ /\ doc.status = "malformed"
          /\ Abort("ParseError")
          /\ UNCHANGED facts
       \/ /\ doc.status = "missing"
          /\ Abort("FileNotFoundError")
          /\ UNCHANGED facts
       \/ /\ doc.status = "unreadable"
          /\ Abort("OSError")
          /\ UNCHANGED facts
    /\ UNCHANGED <<doc, constraint_counters, outStatus, outLines>>
    /\ UNCHANGED outsideParser

\* parse_basic_structure, and the lines parse_xml_file adds after it
BasicStructure ==
    /\ pc = "structure"
    /\ LET r == parse_basic_structure(facts, doc)
       IN  IF r.exc = "none"
           THEN /\ facts' = r.facts \o <<Blank, Comment("Constraints")>>
                /\ pc' = CallOrder[1]
                /\ UNCHANGED <<exitCode, err>>
           ELSE /\ facts' = r.facts
                /\ Abort(r.exc)
    /\ UNCHANGED <<doc, constraint_counters, outStatus, outLines>>
    /\ UNCHANGED outsideParser

\* what parse_xml_file does after the k-th category method returns
AfterCategory(k) == IF k < Len(CallOrder) THEN CallOrder[k + 1] ELSE "parsed"

\* the k-th call of parse_xml_file's constraint section
ParseCategory(k) ==
    /\ pc = CallOrder[k]
    /\ LET r == parse_constraints([facts |-> facts, counters |-> constraint_counters, exc |-> "none"],
                                  CallOrder[k], doc)
       IN  /\ facts' = r.facts
           /\ constraint_counters' = r.counters
           /\ IF r.exc = "none"
              THEN /\ pc' = AfterCategory(k)
                   /\ UNCHANGED <<exitCode, err>>
              ELSE Abort(r.exc)
    /\ UNCHANGED <<doc, outStatus, outLines>>
    /\ UNCHANGED outsideParser

parse_ca1_constraints == ParseCategory(1)

parse_ca2_constraints == ParseCategory(2)

parse_ca3_constraints == ParseCategory(3)

parse_ca4_constraints == ParseCategory(4)

parse_ga1_constraints == ParseCategory(5)

parse_br1_constraints == ParseCategory(6)

parse_br2_constraints == ParseCategory(7)

parse_fa2_constraints == ParseCategory(8)

parse_se1_constraints == ParseCategory(9)

\* faulty variant: the first fact is not written
write_facts_tail ==
    /\ pc = "parsed"
    /\ \/ /\ outStatus' = "written"
          /\ outLines' = Tail(facts)
          /\ pc' = "written"
          /\ UNCHANGED <<exitCode, err>>
       \/ /\ Abort("IOError")
          /\ UNCHANGED <<outStatus, outLines>>
       \/ /\ outStatus' = "truncated"
          /\ Abort("IOError")
          /\ UNCHANGED outLines
    /\ UNCHANGED <<doc, facts, constraint_counters>>
    /\ UNCHANGED outsideParser

\* write_facts: the file is opened and every fact written; an IOError at the
\* open leaves the file as it was, one while writing leaves it incomplete
write_facts ==
    /\ pc = "parsed"
    /\ \/ /\ outStatus' = "written"
          /\ outLines' = facts
          /\ pc' = "written"
          /\ UNCHANGED <<exitCode, err>>
       \/ /\ Abort("IOError")
          /\ UNCHANGED <<outStatus, outLines>>
       \/ /\ outStatus' = "truncated"
          /\ Abort("IOError")
          /\ UNCHANGED outLines
    /\ UNCHANGED <<doc, facts, constraint_counters>>
    /\ UNCHANGED outsideParser

\* main returns after write_facts: the process ends with status 0
MainReturn ==
    /\ pc = "written"
    /\ pc' = "exited"
    /\ exitCode' = 0
    /\ UNCHANGED <<doc, facts, constraint_counters, outStatus, outLines, err>>
    /\ UNCHANGED outsideParser

Next ==
    \/ OpenDocument
    \/ BasicStructure
    \/ parse_ca1_constraints
    \/ parse_ca2_constraints
    \/ parse_ca3_constraints
    \/ parse_ca4_constraints
    \/ parse_ga1_constraints
    \/ parse_br1_constraints
    \/ parse_br2_constraints
    \/ parse_fa2_constraints
    \/ parse_se1_constraints
    \/ write_facts
    \/ MainReturn

Spec == Init /\ [][Next]_vars

\* -------------------------------------------------------------- asp_to_xml
MaxWitnesses == 3

LowerCase ==
    {"a", "b", "c", "d", "e", "f", "g", "h", "i", "j", "k", "l", "m",
     "n", "o", "p", "q", "r", "s", "t", "u", "v", "w", "x", "y", "z"}

\* str.startswith
startswith(s, prefix) == Len(s) >= Len(prefix) /\ SubSeq(s, 1, Len(prefix)) = prefix

\* str.replace(old, ''): every occurrence removed, left to right
RECURSIVE remove(_, _)
remove(s, old) ==
    LET i == find(s, old)
    IN  IF i = 0 THEN s
        ELSE SubSeq(s, 1, i - 1) \o remove(SubSeq(s, i + Len(old), Len(s)), old)

\* how many characters from position i on are in S: what a greedy [..]+ takes
RECURSIVE span(_, _, _)
span(s, i, S) == IF i <= Len(s) /\ s[i] \in S THEN 1 + span(s, i + 1, S) ELSE 0

SchedulePrefix == <<"s", "c", "h", "e", "d", "u", "l", "e", "(">>

\* parse_schedule_atom: re.match of schedule\((\d+),(\d+),(\d+)\) at the start
\* of the stripped atom; the three integers, or None
parse_schedule_atom(atom_str) ==
    LET t == strip(atom_str)
        p1 == Len(SchedulePrefix) + 1
        n1 == span(t, p1, DigitSet)
        p2 == p1 + n1 + 1
        n2 == span(t, p2, DigitSet)
        p3 == p2 + n2 + 1
        n3 == span(t, p3, DigitSet)
        At(i, ch) == i <= Len(t) /\ t[i] = ch
    IN  IF /\ startswith(t, SchedulePrefix)
           /\ n1 > 0 /\ At(p1 + n1, ",")
           /\ n2 > 0 /\ At(p2 + n2, ",")
           /\ n3 > 0 /\ At(p3 + n3, ")")
        THEN Some(<<intVal(SubSeq(t, p1, p1 + n1 - 1)), intVal(SubSeq(t, p2, p2 + n2 - 1)),
                    intVal(SubSeq(t, p3, p3 + n3 - 1))>>)
        ELSE None

\* extract_instance_info: re.match of ([a-z]+)(\d+)_(.+) on the name without
\* ".json"; (category, number, config), or None
extract_instance_info(filename) ==
    LET base == remove(filename, <<".", "j", "s", "o", "n">>)
        n1 == span(base, 1, LowerCase)
        n2 == span(base, n1 + 1, DigitSet)
        u == n1 + n2 + 1
    IN  IF n1 > 0 /\ n2 > 0 /\ u < Len(base) /\ base[u] = "_"
        THEN Some(<<SubSeq(base, 1, n1), intVal(SubSeq(base, n1 + 1, n1 + n2)),
                    SubSeq(base, u + 1, Len(base))>>)
        ELSE None

\* dict.get(key, default) on a key that is absent or present with a value
getKey(entry, default) == IF entry.present THEN entry.val ELSE default

NoKey == [present |-> FALSE]

Key(v) == [present |-> TRUE, val |-> v]

\* faulty variant: a witness of equal cost replaces the one chosen before
RECURSIVE best_witness_le(_, _, _)
best_witness_le(witnesses, i, best) ==
    IF i > Len(witnesses) THEN best
    ELSE LET witness_costs == getKey(witnesses[i].Costs, <<>>)
         IN  IF witness_costs # <<>> /\ (best = 0 \/ witness_costs[1] <= getKey(witnesses[best].Costs, <<>>)[1])
             THEN best_witness_le(witnesses, i + 1, i)
             ELSE best_witness_le(witnesses, i + 1, best)

\* the loop over the witnesses, from the i-th on: the index of best_witness, 0
\* while it is None (best_cost is then infinity)
RECURSIVE best_witness(_, _, _)
best_witness(witnesses, i, best) ==
    IF i > Len(witnesses) THEN best
    ELSE LET witness_costs == getKey(witnesses[i].Costs, <<>>)
         IN  IF witness_costs # <<>> /\ (best = 0 \/ witness_costs[1] < getKey(witnesses[best].Costs, <<>>)[1])
             THEN best_witness(witnesses, i + 1, i)
             ELSE best_witness(witnesses, i + 1, best)

\* the loop over the atoms of the chosen witness
RECURSIVE schedule_data_of(_)
schedule_data_of(values) ==
    IF values = <<>> THEN <<>>
    ELSE LET atom == Head(values)
             parsed == parse_schedule_atom(atom)
         IN  (IF startswith(atom, SchedulePrefix) /\ parsed.some THEN <<parsed.val>> ELSE <<>>)
             \o schedule_data_of(Tail(values))

\* process_json_file: the dictionary returned, or None when the file cannot be
\* read as JSON or its name does not parse
process_json_file_result(f) ==
    IF f.status # "ok" THEN None
    ELSE LET instance_info == extract_instance_info(f.filename)
             result == getKey(f.data.Result, "UNKNOWN")
             solved == result = "SATISFIABLE" \/ result = "OPTIMUM FOUND"
             calls == getKey(f.data.Call, <<>>)
             witnesses == IF calls # <<>> THEN getKey(calls[1].Witnesses, <<>>) ELSE <<>>
             best == IF solved THEN best_witness(witnesses, 1, 0) ELSE 0
         IN  IF ~instance_info.some THEN None
             ELSE Some([instance_info |-> instance_info.val,
                        result |-> result,
                        cost |-> IF best # 0 THEN Some(getKey(witnesses[best].Costs, <<>>)[1]) ELSE None,
                        is_optimal |-> result = "OPTIMUM FOUND",
                        schedule_data |-> IF best # 0 THEN schedule_data_of(getKey(witnesses[best].Value, <<>>))
                                          ELSE <<>>,
                        filename |-> f.filename])

\* --- inputs of asp_to_xml
\* schedule(h,a,s) as the solver prints it
Atom(h, a, s) ==
    SchedulePrefix \o <<DigitChars[h + 1], ",", DigitChars[a + 1], ",", DigitChars[s + 1], ")">>

\* the Value lists of the witnesses: schedule atoms, an atom of another
\* predicate, a malformed schedule atom, an atom after a blank
ValueSamples ==
    {<<Atom(0, 1, 0), <<"o", "k">>, Atom(1, 0, 1)>>,
     <<SchedulePrefix \o <<"x", ")">>, <<" ">> \o Atom(1, 0, 0), Atom(1, 0, 0)>>}

CostSamples == {NoKey, Key(<<>>), Key(<<1>>), Key(<<2>>)}

Witness(costs, value) == [Costs |-> costs, Value |-> value]

WitnessSamples == {Witness(c, Key(v)) : c \in CostSamples, v \in ValueSamples}

\* a call of the solver with its witnesses; a later call, never looked at
CallOf(ws) == [Witnesses |-> Key(ws)]

LaterCall == CallOf(<<Witness(Key(<<0>>), Key(<<Atom(2, 2, 2)>>))>>)

ResultSamples ==
    {NoKey, Key("SATISFIABLE"), Key("OPTIMUM FOUND"), Key("UNSATISFIABLE"), Key("UNKNOWN")}

GoodName == <<"e", "a", "r", "l", "y", "1", "2", "_", "B", "B", "2", ".", "j", "s", "o", "n">>

BadName == <<"r", "e", "s", "u", "l", "t", ".", "j", "s", "o", "n">>

JsonFile(status, filename, result, call) ==
    [status |-> status, filename |-> filename, data |-> [Result |-> result, Call |-> call]]

\* solver result files: any list of sample witnesses in the first call
WitnessFiles ==
    {JsonFile("ok", GoodName, r, Key(<<CallOf(ws)>> \o later)) :
        r \in ResultSamples, ws \in SeqsUpTo(WitnessSamples, MaxWitnesses),
        later \in {<<>>, <<LaterCall>>}}

\* result files without calls, without witnesses, with several cost levels or
\* without a Value; a name that does not parse; a file that is not JSON
OtherFiles ==
    {JsonFile("ok", GoodName, r, c) :
        r \in ResultSamples,
        c \in {NoKey, Key(<<>>), Key(<<[Witnesses |-> NoKey]>>),
               Key(<<CallOf(<<Witness(Key(<<2, 0>>), Key(<<Atom(0, 1, 0)>>)),
                             Witness(Key(<<1, 5>>), NoKey)>>)>>)}}
    \cup {JsonFile("ok", BadName, Key("SATISFIABLE"), NoKey),
          JsonFile("invalid", GoodName, NoKey, NoKey)}

\* --- writing the solution document
MaxFiles == 3

AsciiLower ==
    <<"a", "b", "c", "d", "e", "f", "g", "h", "i", "j", "k", "l", "m",
      "n", "o", "p", "q", "r", "s", "t", "u", "v", "w", "x", "y", "z">>

AsciiUpper ==
    <<"A", "B", "C", "D", "E", "F", "G", "H", "I", "J", "K", "L", "M",
      "N", "O", "P", "Q", "R", "S", "T", "U", "V", "W", "X", "Y", "Z">>

\* str.upper and str.lower on one character
upperChar(ch) ==
    IF \E i \in 1..26 : AsciiLower[i] = ch
    THEN AsciiUpper[CHOOSE i \in 1..26 : AsciiLower[i] = ch] ELSE ch

lowerAscii(ch) ==
    IF \E i \in 1..26 : AsciiUpper[i] = ch
    THEN AsciiLower[CHOOSE i \in 1..26 : AsciiUpper[i] = ch] ELSE ch

\* str.title(): a letter after a letter in lower case, any other letter in upper case
title(s) ==
    [i \in 1..Len(s) |->
        IF i > 1 /\ (upperChar(s[i - 1]) # s[i - 1] \/ lowerAscii(s[i - 1]) # s[i - 1]) THEN lowerAscii(s[i]) ELSE upperChar(s[i])]

\* str(n) and f"{n}" of an integer that is not negative
RECURSIVE str(_)
str(n) == IF n < 10 THEN <<DigitChars[n + 1]>> ELSE str(n \div 10) \o <<DigitChars[(n % 10) + 1]>>

\* faulty variant: a tuple goes before the tuples of its own slot
RECURSIVE sorted_ties_reversed(_)
sorted_ties_reversed(schedule_data) ==
    IF schedule_data = <<>> THEN <<>>
    ELSE LET x == schedule_data[Len(schedule_data)]
             front == sorted_ties_reversed(SubSeq(schedule_data, 1, Len(schedule_data) - 1))
             n == Cardinality({i \in 1..Len(front) : front[i][3] < x[3]})
         IN  SubSeq(front, 1, n) \o <<x>> \o SubSeq(front, n + 1, Len(front))

\* sorted(schedule_data, key=lambda x: x[2]): each tuple goes after the tuples
\* before it whose slot is not larger
RECURSIVE sorted(_)
sorted(schedule_data) ==
    IF schedule_data = <<>> THEN <<>>
    ELSE LET x == schedule_data[Len(schedule_data)]
             front == sorted(SubSeq(schedule_data, 1, Len(schedule_data) - 1))
             n == Cardinality({i \in 1..Len(front) : front[i][3] <= x[3]})
         IN  SubSeq(front, 1, n) \o <<x>> \o SubSeq(front, n + 1, Len(front))

Chars(w) ==
    CASE w = "early" -> <<"e", "a", "r", "l", "y">>
      [] w = "late" -> <<"l", "a", "t", "e">>
      [] w = "middle" -> <<"m", "i", "d", "d", "l", "e">>
      [] w = "inst" -> <<"i", "n", "s", "t">>
      [] w = "ITC2021_" -> <<"I", "T", "C", "2", "0", "2", "1", "_">>
      [] w = "ASP_" -> <<"A", "S", "P", "_">>
      [] w = ".xml" -> <<".", "x", "m", "l">>
      [] w = ".json" -> <<".", "j", "s", "o", "n">>

\* create_xml_solution: the Solution element with its MetaData texts and its
\* Games; the Date element carries the day of the run and is left out
create_xml_solution(instance_info, schedule_data, cost, is_optimal) ==
    LET category == instance_info[1]
        number == instance_info[2]
        config == instance_info[3]
        sorted_schedule == IF schedule_data # <<>> THEN sorted(schedule_data) ELSE <<>>
    IN  [InstanceName |->
            IF category = Chars("early") THEN Chars("inst") \o str(number) \o <<"_", "e">> \o Chars(".xml")
            ELSE IF category = Chars("late") THEN Chars("inst") \o str(number) \o <<"_", "l">> \o Chars(".xml")
            ELSE IF category = Chars("middle") THEN Chars("inst") \o str(number) \o <<"_", "m">> \o Chars(".xml")
            ELSE Chars("ITC2021_") \o title(category) \o <<"_">> \o str(number) \o Chars(".xml"),
         Contributor |-> Chars("ASP_") \o config,
         Games |->
            [i \in 1..Len(sorted_schedule) |->
                El("ScheduledMatch", <<<<"home", str(sorted_schedule[i][1])>>,
                                       <<"away", str(sorted_schedule[i][2])>>,
                                       <<"slot", str(sorted_schedule[i][3])>>>>)]]

\* the name convert_json_to_xml gives the solution file
xml_filename(instance_info) ==
    title(instance_info[1]) \o <<"_">> \o str(instance_info[2]) \o <<"_">> \o instance_info[3]
    \o Chars(".xml")

\* a witness whose atoms are not in slot order and share slots, one atom
\* twice; a result under a name with a category of one letter
SortFiles ==
    {JsonFile("ok", GoodName, Key("OPTIMUM FOUND"),
              Key(<<CallOf(<<Witness(Key(<<1>>),
                                     Key(<<Atom(0, 1, 1), Atom(1, 0, 0), Atom(2, 0, 1),
                                           Atom(1, 2, 0), Atom(0, 1, 1), Atom(2, 1, 0)>>))>>)>>)),
     JsonFile("ok", <<"x", "1", "_", "c">> \o Chars(".json"), Key("SATISFIABLE"),
              Key(<<CallOf(<<Witness(Key(<<0>>), Key(<<Atom(1, 0, 1), Atom(0, 1, 0)>>))>>)>>))}

\* the files of a directory with several results: one with a schedule, one
\* without, one whose name does not parse, one that is not JSON
LoopFiles ==
    {JsonFile("ok", GoodName, Key("SATISFIABLE"),
              Key(<<CallOf(<<Witness(Key(<<1>>), Key(<<Atom(0, 1, 0)>>))>>)>>)),
     JsonFile("ok", GoodName, Key("UNKNOWN"), Key(<<>>)),
     JsonFile("ok", BadName, Key("SATISFIABLE"), NoKey),
     JsonFile("invalid", GoodName, NoKey, NoKey)}

\* what os.walk finds in Results/main_exp
Directories ==
    {<<f>> : f \in WitnessFiles \cup OtherFiles \cup SortFiles} \cup SeqsUpTo(LoopFiles, MaxFiles)

\* --- actions of asp_to_xml
\* the parser is not running
ParserIdle ==
    /\ doc = ScenarioDoc
    /\ pc = "exited"
    /\ facts = <<>>
    /\ constraint_counters = ITC2021Parser.constraint_counters
    /\ outStatus = "untouched"
    /\ outLines = <<>>
    /\ exitCode = 0
    /\ err = "none"

InitAsp ==
    /\ ParserIdle /\ CostsIdle /\ ValidateIdle /\ PipelineIdle /\ SaIdle
    /\ json_files \in Directories
    /\ file_index = 0
    /\ successful = 0
    /\ failed = 0
    /\ xml_solutions = <<>>
    /\ converted = "none"
    /\ json_file = NoJsonFile
    /\ apc = "loop"
    /\ solution_data = None

\* convert_all_results: the loop takes the next file and calls convert_json_to_xml
NextFile ==
    /\ apc = "loop"
    /\ file_index < Len(json_files)
    /\ file_index' = file_index + 1
    /\ json_file' = json_files[file_index + 1]
    /\ solution_data' = None
    /\ converted' = "none"
    /\ apc' = "call"
    /\ UNCHANGED <<json_files, successful, failed, xml_solutions>>
    /\ UNCHANGED outsideAsp

\* process_json_file(filepath)
process_json_file ==
    /\ apc = "call"
    /\ solution_data' = process_json_file_result(json_file)
    /\ apc' = "returned"
    /\ UNCHANGED <<json_file, convertVars>>
    /\ UNCHANGED outsideAsp

\* faulty variant: an exception of the write is not counted
convert_json_to_xml_uncounted ==
    /\ apc = "returned"
    /\ IF ~solution_data.some \/ solution_data.val.schedule_data = <<>>
       THEN /\ converted' = "False"
            /\ failed' = failed + 1
            /\ UNCHANGED <<successful, xml_solutions>>
       ELSE \/ /\ xml_solutions' =
                    Append(xml_solutions,
                           [name |-> xml_filename(solution_data.val.instance_info),
                            root |-> create_xml_solution(solution_data.val.instance_info,
                                                         solution_data.val.schedule_data,
                                                         solution_data.val.cost,
                                                         solution_data.val.is_optimal)])
               /\ converted' = "True"
               /\ successful' = successful + 1
               /\ UNCHANGED failed
            \/ /\ converted' = "raised"
               /\ UNCHANGED <<successful, failed, xml_solutions>>
    /\ apc' = "loop"
    /\ UNCHANGED <<json_file, solution_data, json_files, file_index>>
    /\ UNCHANGED outsideAsp

\* convert_json_to_xml after process_json_file has returned, and the counting of
\* convert_all_results; open or write may raise
convert_json_to_xml ==
    /\ apc = "returned"
    /\ IF ~solution_data.some \/ solution_data.val.schedule_data = <<>>
       THEN /\ converted' = "False"
            /\ failed' = failed + 1
            /\ UNCHANGED <<successful, xml_solutions>>
       ELSE LET xml_root == create_xml_solution(solution_data.val.instance_info,
                                                solution_data.val.schedule_data,
                                                solution_data.val.cost,
                                                solution_data.val.is_optimal)
            IN  \/ /\ xml_solutions' =
                        Append(xml_solutions,
                               [name |-> xml_filename(solution_data.val.instance_info),
                                root |-> xml_root])
                   /\ converted' = "True"
                   /\ successful' = successful + 1
                   /\ UNCHANGED failed
                \/ /\ converted' = "raised"
                   /\ failed' = failed + 1
                   /\ UNCHANGED <<successful, xml_solutions>>
    /\ apc' = "loop"
    /\ UNCHANGED <<json_file, solution_data, json_files, file_index>>
    /\ UNCHANGED outsideAsp

\* convert_all_results after the last file
ConversionComplete ==
    /\ apc = "loop"
    /\ file_index = Len(json_files)
    /\ apc' = "done"
    /\ UNCHANGED <<json_file, solution_data, convertVars>>
    /\ UNCHANGED outsideAsp

NextAsp ==
    \/ NextFile
    \/ process_json_file
    \/ convert_json_to_xml
    \/ ConversionComplete

SpecAsp == InitAsp /\ [][NextAsp]_vars

\* ------------------------------------- analyze_results.py, validate_xml.py
\* one result file in Results/main_exp/<category>/, also under other names: a
\* category of one letter, a number with a leading zero, a configuration
\* with a hyphen; asp_to_xml is not running
InitCosts ==
    /\ ParserIdle /\ ValidateIdle /\ PipelineIdle /\ SaIdle
    /\ json_file \in
           WitnessFiles \cup OtherFiles \cup
           {JsonFile("ok", n \o Chars(".json"), Key("SATISFIABLE"),
                     Key(<<CallOf(<<Witness(Key(<<1>>), Key(<<Atom(0, 1, 0)>>))>>)>>)) :
               n \in {<<"e", "1", "_", "X">>,
                      <<"e", "a", "r", "l", "y", "0", "5", "_", "B", "B", "2">>,
                      <<"l", "a", "t", "e", "3", "_", "C", "-", "R">>}}
    /\ apc = "idle"
    /\ solution_data = None
    /\ json_files = <<>>
    /\ file_index = 0
    /\ successful = 0
    /\ failed = 0
    /\ xml_solutions = <<>>
    /\ converted = "none"
    /\ cpc = "start"
    /\ analysis_results = <<>>
    /\ solution_name = None
    /\ cost_lookup = None

\* analyze_results.extract_instance_key: re.match of ([a-z]+\d+)_(.+) on the
\* name without ".json"; (instance_key, config), or None for (None, None)
extract_instance_key(filename) ==
    LET base == remove(filename, Chars(".json"))
        n1 == span(base, 1, LowerCase)
        n2 == span(base, n1 + 1, DigitSet)
        u == n1 + n2 + 1
    IN  IF n1 > 0 /\ n2 > 0 /\ u < Len(base) /\ base[u] = "_"
        THEN Some(<<SubSeq(base, 1, n1 + n2), SubSeq(base, u + 1, Len(base))>>)
        ELSE None

\* analyze_results.process_json_results on the file: the row appended; no row
\* when json.load raises or the name does not parse
process_json_results ==
    /\ cpc = "start"
    /\ LET parsed == extract_instance_key(json_file.filename)
           result == getKey(json_file.data.Result, "UNKNOWN")
           calls == getKey(json_file.data.Call, <<>>)
           witnesses == IF calls # <<>> /\ calls[1].Witnesses.present
                        THEN calls[1].Witnesses.val ELSE <<>>
           costs == IF witnesses # <<>> THEN getKey(witnesses[1].Costs, <<>>) ELSE <<>>
           cost == IF result \in {"SATISFIABLE", "OPTIMUM FOUND"} /\ costs # <<>>
                   THEN Some(costs[1]) ELSE None
       IN  IF json_file.status # "ok" \/ ~parsed.some
           THEN UNCHANGED analysis_results
           ELSE analysis_results' =
                    Append(analysis_results,
                           [filename |-> json_file.filename, instance_key |-> parsed.val[1],
                            configuration |-> parsed.val[2], result |-> result, cost |-> cost])
    /\ cpc' = "analyzed"
    /\ UNCHANGED <<solution_name, cost_lookup>>
    /\ UNCHANGED outsideCosts

\* re.match of ([A-Z][a-z]+)_(\d+)_(.+) on the name without ".xml": the three
\* groups as texts, or None
SolutionNameGroups(xml_name) ==
    LET base == remove(xml_name, Chars(".xml"))
        n1 == span(base, 2, LowerCase)
        u1 == n1 + 2
        n2 == span(base, u1 + 1, DigitSet)
        u2 == u1 + n2 + 1
    IN  IF /\ base # <<>> /\ lowerAscii(base[1]) # base[1] /\ n1 > 0
           /\ u1 <= Len(base) /\ base[u1] = "_"
           /\ n2 > 0 /\ u2 < Len(base) /\ base[u2] = "_"
        THEN Some(<<SubSeq(base, 1, n1 + 1), SubSeq(base, u1 + 1, u1 + n2),
                    SubSeq(base, u2 + 1, Len(base))>>)
        ELSE None

\* validate_xml.extract_instance_from_solution_name on the name asp_to_xml
\* gives the solution of json_file; no call when asp_to_xml cannot name it
extract_instance_from_solution_name ==
    /\ cpc = "analyzed"
    /\ LET instance_info == extract_instance_info(json_file.filename)
       IN  solution_name' =
               IF instance_info.some THEN SolutionNameGroups(xml_filename(instance_info.val))
               ELSE None
    /\ cpc' = "named"
    /\ UNCHANGED <<analysis_results, cost_lookup>>
    /\ UNCHANGED outsideCosts

\* validate_xml.extract_asp_cost_from_json on the same name: the file name it
\* builds and what it returns; the path exists when the name is json_file's
extract_asp_cost_from_json ==
    /\ cpc = "named"
    /\ LET instance_info == extract_instance_info(json_file.filename)
           match == SolutionNameGroups(xml_filename(instance_info.val))
           category == [i \in 1..Len(match.val[1]) |-> lowerAscii(match.val[1][i])]
           json_filename == category \o match.val[2] \o <<"_">> \o match.val[3] \o Chars(".json")
           calls == getKey(json_file.data.Call, <<>>)
           witnesses == IF calls # <<>> THEN getKey(calls[1].Witnesses, <<>>) ELSE <<>>
           best == best_witness(witnesses, 1, 0)
       IN  cost_lookup' =
               IF ~instance_info.some THEN None
               ELSE IF ~match.some THEN Some([json_filename |-> None, cost |-> None])
               ELSE Some([json_filename |-> Some(json_filename),
                          cost |-> IF /\ json_filename = json_file.filename
                                      /\ json_file.status = "ok"
                                      /\ best # 0
                                   THEN Some(getKey(witnesses[best].Costs, <<>>)[1]) ELSE None])
    /\ cpc' = "done"
    /\ UNCHANGED <<analysis_results, solution_name>>
    /\ UNCHANGED outsideCosts

NextCosts ==
    \/ process_json_results
    \/ extract_instance_from_solution_name
    \/ extract_asp_cost_from_json

SpecCosts == InitCosts /\ [][NextCosts]_vars

\* ------------------------------------------ validate_xml.validate_single_xml
ObjectiveWord == <<"O", "b", "j", "e", "c", "t", "i", "v", "e", ":">>

\* the white space of the validator's output: what \s matches and strip() removes
OutputSpace == WS \cup {"\n", "\t"}

\* re.search of Objective:\s+(\d+)\s+(\d+) in a line, from position i on:
\* int of the second group of the first match, or None
RECURSIVE search_objective(_, _)
search_objective(line, i) ==
    IF i + Len(ObjectiveWord) - 1 > Len(line) THEN None
    ELSE LET p1 == i + Len(ObjectiveWord)
             w1 == span(line, p1, OutputSpace)
             d1 == span(line, p1 + w1, DigitSet)
             w2 == span(line, p1 + w1 + d1, OutputSpace)
             p2 == p1 + w1 + d1 + w2
             d2 == span(line, p2, DigitSet)
         IN  IF SubSeq(line, i, p1 - 1) = ObjectiveWord /\ w1 > 0 /\ d1 > 0 /\ w2 > 0 /\ d2 > 0
             THEN Some(intVal(SubSeq(line, p2, p2 + d2 - 1)))
             ELSE search_objective(line, i + 1)

\* the loop over the lines: the objective of the first line that matches
RECURSIVE objective_of_lines(_)
objective_of_lines(lines) ==
    IF lines = <<>> THEN None
    ELSE IF search_objective(Head(lines), 1).some THEN search_objective(Head(lines), 1)
    ELSE objective_of_lines(Tail(lines))

extract_objective_from_output(output_text) ==
    LET first == span(output_text, 1, OutputSpace) + 1
        last == CHOOSE j \in 0..Len(output_text) :
                    /\ \A k \in (j + 1)..Len(output_text) : output_text[k] \in OutputSpace
                    /\ j = 0 \/ output_text[j] \notin OutputSpace
    IN  objective_of_lines(split(SubSeq(output_text, first, last), <<"\n">>))

\* what the validator prints: nothing, an objective line as RobinX formats
\* it, one after another line, two objective lines, a line with one number,
\* a line without space after the colon, an error text
OutputSamples ==
    {<<>>,
     ObjectiveWord \o <<" ", "\t", "0", " ", " ", "1", "6">>,
     <<"o", "k", "\n">> \o ObjectiveWord \o <<" ", "2", " ", "7", "\n">>,
     ObjectiveWord \o <<" ", "x">> \o <<"\n">> \o ObjectiveWord \o <<" ", "0", " ", "3">>
        \o <<"\n">> \o ObjectiveWord \o <<" ", "0", " ", "4">>,
     ObjectiveWord \o <<" ", "5">>,
     ObjectiveWord \o <<"0", " ", "5">>,
     <<"e", "r", "r">>}

\* how subprocess.run ends: the validator exits, the timeout expires, or the
\* program cannot be started
InitValidate ==
    /\ ParserIdle /\ AspIdle /\ CostsIdle /\ PipelineIdle /\ SaIdle
    /\ \/ robinx \in [outcome : {"completed"}, returncode : {0, 0 - 11, 3, 1, 2, 0 - 6},
                      stdout : OutputSamples, stderr : {<<>>, <<"e", "r", "r">>,
                                                        ObjectiveWord \o <<" ", "1", " ", "9">>}]
       \/ robinx \in [outcome : {"timeout", "exception"}, returncode : {0},
                      stdout : {<<>>}, stderr : {<<>>}]
    /\ vpc = "call"
    /\ validation_result = None

\* validate_single_xml(solution_path, instance_path)
validate_single_xml ==
    /\ vpc = "call"
    /\ LET validation_objective == extract_objective_from_output(robinx.stdout \o robinx.stderr)
           returncode == robinx.returncode
       IN  validation_result' =
               IF robinx.outcome = "timeout"
               THEN Some([return_code |-> 0 - 1, validation_successful |-> FALSE,
                          validation_objective |-> None, status |-> <<"TIMEOUT">>])
               ELSE IF robinx.outcome = "exception"
               THEN Some([return_code |-> 0 - 1, validation_successful |-> FALSE,
                          validation_objective |-> None, status |-> <<"EXCEPTION">>])
               ELSE Some([return_code |-> returncode,
                          validation_successful |->
                              \/ returncode = 0
                              \/ returncode \notin {0 - 11, 3} /\ validation_objective.some,
                          validation_objective |-> validation_objective,
                          status |->
                              IF returncode = 0 THEN <<"VALID">>
                              ELSE IF returncode = 0 - 11 THEN <<"SEGFAULT">>
                              ELSE IF returncode = 3 THEN <<"ERROR_3">>
                              ELSE IF validation_objective.some THEN <<"CALCULATED_RC", returncode>>
                              ELSE <<"ERROR_", returncode>>])
    /\ vpc' = "returned"
    /\ UNCHANGED robinx
    /\ UNCHANGED outsideValidate

NextValidate ==
    \/ validate_single_xml

SpecValidate == InitValidate /\ [][NextValidate]_vars

\* ------------------------------------------------------- process_all.py
RequiredPaths ==
    {"Validation/RobinX/Repository/ITC2021/Bounds/",
     "Validation/RobinX/Repository/ITC2021/Instances/",
     "Results/main_exp/",
     "Validation/RobinX/RobinX"}

steps == <<"extract_bounds.py", "asp_to_xml.py", "analyze_results.py">>

\* which required paths exist, and how subprocess.run ends for each script:
\* it exits with a return code, the timeout expires, or it cannot be started
InitPipeline ==
    /\ ParserIdle /\ AspIdle /\ CostsIdle /\ ValidateIdle /\ SaIdle
    /\ required_paths \in SUBSET RequiredPaths
    /\ script_runs \in
           [{steps[i] : i \in 1..Len(steps)} ->
               [outcome : {"completed"}, returncode : {0, 1, 2}]
               \cup [outcome : {"timeout", "exception"}, returncode : {0}]]
    /\ ppc = "main"
    /\ steps_started = <<>>
    /\ successful_steps = 0
    /\ directories = {}
    /\ report = FALSE
    /\ main_return = None

\* main: check_dependencies, and return 1 when a path is missing
check_dependencies ==
    /\ ppc = "main"
    /\ LET missing == RequiredPaths \ required_paths
       IN  IF missing # {}
           THEN /\ main_return' = Some(1)
                /\ ppc' = "returned"
           ELSE /\ ppc' = "directories"
                /\ UNCHANGED main_return
    /\ UNCHANGED <<required_paths, script_runs, steps_started, successful_steps, directories, report>>
    /\ UNCHANGED outsidePipeline

create_output_directories ==
    /\ ppc = "directories"
    /\ directories' = directories \cup {"xml_solutions", "reports"}
    /\ ppc' = "steps"
    /\ UNCHANGED <<required_paths, script_runs, steps_started, successful_steps, report, main_return>>
    /\ UNCHANGED outsidePipeline

\* faulty variant: the loop goes on after a step that failed
run_script_no_break ==
    /\ ppc = "steps"
    /\ LET script == steps[Len(steps_started) + 1]
           result == script_runs[script]
       IN  /\ steps_started' = Append(steps_started, script)
           /\ successful_steps' =
                  IF result.outcome = "completed" /\ result.returncode = 0
                  THEN successful_steps + 1 ELSE successful_steps
           /\ ppc' = IF Len(steps_started) + 1 = Len(steps) THEN "report" ELSE "steps"
    /\ UNCHANGED <<required_paths, script_runs, directories, report, main_return>>
    /\ UNCHANGED outsidePipeline

\* main: one pass of the loop over steps, with the call of run_script
run_script ==
    /\ ppc = "steps"
    /\ LET script == steps[Len(steps_started) + 1]
           result == script_runs[script]
       IN  /\ steps_started' = Append(steps_started, script)
           /\ IF result.outcome = "completed" /\ result.returncode = 0
              THEN /\ successful_steps' = successful_steps + 1
                   /\ ppc' = IF Len(steps_started) + 1 = Len(steps) THEN "report" ELSE "steps"
              ELSE /\ UNCHANGED successful_steps
                   /\ ppc' = "report"
    /\ UNCHANGED <<required_paths, script_runs, directories, report, main_return>>
    /\ UNCHANGED outsidePipeline

\* faulty variant: the report is written whatever the steps did
generate_summary_report_always ==
    /\ ppc = "report"
    /\ report' = TRUE
    /\ main_return' = Some(0)
    /\ ppc' = "returned"
    /\ UNCHANGED <<required_paths, script_runs, steps_started, successful_steps, directories>>
    /\ UNCHANGED outsidePipeline

\* main after the loop: generate_summary_report and the return value
generate_summary_report ==
    /\ ppc = "report"
    /\ IF successful_steps >= 3
       THEN /\ report' = TRUE
            /\ main_return' = Some(0)
       ELSE /\ UNCHANGED report
            /\ main_return' = Some(1)
    /\ ppc' = "returned"
    /\ UNCHANGED <<required_paths, script_runs, steps_started, successful_steps, directories>>
    /\ UNCHANGED outsidePipeline

NextPipeline ==
    \/ check_dependencies
    \/ create_output_directories
    \/ run_script
    \/ generate_summary_report

SpecPipeline == InitPipeline /\ [][NextPipeline]_vars

\* ---------------------------------------------------- validate_sa_xml.py
MaxSaFiles == 2

\* what the validator prints: a verdict in either case, no verdict, a
\* verdict before another line, an objective line before a verdict
SaOutputs ==
    {<<"v", "a", "l", "i", "d">>,
     <<"I", "n", "v", "a", "l", "i", "d">>,
     <<"o", "k">>,
     <<"i", "n", "v", "a", "l", "i", "d", "\n", "o", "k">>,
     <<"O", "b", "j", "e", "c", "t", "i", "v", "e", " ", "v", "a", "l", "u", "e", " ", "1", "2",
       " ", "3", "\n", "V", "A", "L", "I", "D">>}

\* the loop over the lines of the output when the return code is 0: the
\* status and the objective that the last assignments leave
parse_validation_output(stdout) ==
    LET output_lines == split(stdout, <<"\n">>)
        low(i) == [k \in 1..Len(output_lines[i]) |-> lowerAscii(output_lines[i][k])]
        Has(i, w) == contains(low(i), w)
        valid == <<"v", "a", "l", "i", "d">>
        invalid == <<"i", "n", "v", "a", "l", "i", "d">>
        FirstDigit(i) == CHOOSE k \in 1..Len(output_lines[i]) :
                             /\ output_lines[i][k] \in DigitSet
                             /\ \A j \in 1..(k - 1) : output_lines[i][j] \notin DigitSet
        verdicts == {i \in 1..Len(output_lines) : Has(i, valid) \/ Has(i, invalid)}
        objectives == {i \in 1..Len(output_lines) :
                          /\ Has(i, <<"o", "b", "j", "e", "c", "t", "i", "v", "e">>)
                          /\ Has(i, <<"v", "a", "l", "u", "e">>)
                          /\ \E k \in 1..Len(output_lines[i]) : output_lines[i][k] \in DigitSet}
        last(S) == CHOOSE i \in S : \A j \in S : j <= i
    IN  [validation_status |->
            IF verdicts = {} THEN "UNKNOWN"
            ELSE IF Has(last(verdicts), valid) THEN "VALID"
            ELSE "INVALID",
         objective_value |->
            IF objectives = {} THEN None
            ELSE LET i == last(objectives)
                 IN  Some(decimal(SubSeq(output_lines[i], FirstDigit(i),
                                         FirstDigit(i) + span(output_lines[i], FirstDigit(i), DigitSet) - 1)))]

\* the files of sa_xml_solutions, each name once, and how subprocess.run ends
\* on each: the validator exits, or the call raises (the timeout expires, the
\* shell cannot be started)
InitSa ==
    /\ ParserIdle /\ AspIdle /\ CostsIdle /\ ValidateIdle /\ PipelineIdle
    /\ LET names == {<<"a", "_", "S", "A">> \o Chars(".xml"),
                     <<"b", "_", "S", "A">> \o Chars(".xml"), <<"c">> \o Chars(".xml")}
           runs == [outcome : {"completed"}, returncode : {0}, stdout : SaOutputs]
                   \cup [outcome : {"completed"}, returncode : {1}, stdout : {<<"v", "a", "l", "i", "d">>}]
                   \cup [outcome : {"raised"}, returncode : {0}, stdout : {<<>>}]
       IN  xml_files \in {fs \in SeqsUpTo([name : names, run : runs], MaxSaFiles) :
                             \A i, j \in 1..Len(fs) : fs[i].name = fs[j].name => i = j}
    /\ spc = "loop"
    /\ sa_index = 0
    /\ instance_name = None
    /\ results = <<>>

\* validate_sa_xml_files: one pass of the loop over xml_files; instance_name
\* is bound after subprocess.run has returned, and the handler reads it
validate_sa_xml_files ==
    /\ spc = "loop"
    /\ sa_index < Len(xml_files)
    /\ LET xml_file == xml_files[sa_index + 1]
           stem == SubSeq(xml_file.name, 1, Len(xml_file.name) - 4)
           parsed == IF xml_file.run.returncode = 0 THEN parse_validation_output(xml_file.run.stdout)
                     ELSE [validation_status |-> "UNKNOWN", objective_value |-> None]
       IN  IF xml_file.run.outcome = "completed"
           THEN /\ instance_name' = Some(remove(stem, <<"_", "S", "A">>))
                /\ results' = Append(results, [Instance |-> instance_name'.val,
                                                XMLFile |-> xml_file.name,
                                                ValidationStatus |-> parsed.validation_status,
                                                ValidatedObjective |-> parsed.objective_value])
                /\ sa_index' = sa_index + 1
                /\ UNCHANGED spc
           ELSE IF instance_name.some
           THEN /\ results' = Append(results, [Instance |-> instance_name.val,
                                                XMLFile |-> xml_file.name,
                                                ValidationStatus |-> "ERROR",
                                                ValidatedObjective |-> None])
                /\ sa_index' = sa_index + 1
                /\ UNCHANGED <<spc, instance_name>>
           ELSE /\ spc' = "NameError"
                /\ UNCHANGED <<sa_index, instance_name, results>>
    /\ UNCHANGED xml_files
    /\ UNCHANGED outsideSa

\* validate_sa_xml_files after the loop: sa_validation_results.csv is written
SaveResults ==
    /\ spc = "loop"
    /\ sa_index = Len(xml_files)
    /\ spc' = "saved"
    /\ UNCHANGED <<xml_files, sa_index, instance_name, results>>
    /\ UNCHANGED outsideSa

NextSa ==
    \/ validate_sa_xml_files
    \/ SaveResults

SpecSa == InitSa /\ [][NextSa]_vars

\* ------------------------------------------------------ reading the facts
IsStmt(f) == f.kind = "stmt"

\* the statements of the structural section and of the constraint section
IsStructural(f) == IsStmt(f) /\ f.cat = ""

IsConstraint(f) == IsStmt(f) /\ f.cat # ""

\* the lines that are neither comments nor blank, in order
Statements == SelectSeq(facts, IsStmt)

\* how many lines of fs satisfy Test
Count(fs, Test(_)) == Cardinality({i \in 1..Len(fs) : Test(fs[i])})

\* each record's first statement is its type parameter: the identifiers of the
\* records of category c, in emission order
IdsIssued(c) ==
    LET First(f) == f.pred = "param" /\ f.cat = c /\ f.name = "type"
        firsts == SelectSeq(facts, First)
    IN  [i \in 1..Len(firsts) |-> firsts[i].cid]

\* parse_xml_file has returned: the whole document is transcoded
Transcoded == pc \in {"parsed", "written"} \/ (pc = "exited" /\ err \in {"none", "IOError"})

\* the identifiers of a section whose id attributes are all integers
AllIds(section) == \A i \in 1..Len(section.ids) : section.ids[i].present /\ intOk(section.ids[i].text)

IntsOf(section) == [i \in 1..Len(section.ids) |-> intVal(section.ids[i].text)]

\* the structural section has been emitted without an exception
StructureDone == pc \notin {"start", "structure"} /\ doc.status = "ok" /\ AllIds(doc.teams) /\ AllIds(doc.slots)

\* ------------------------------------------------------------------ claims
\* C1: for each of the nine categories the k-th element processed receives
\* identifier k (first 1, each next one greater), whatever elements of other
\* categories come before or between; no identifier is issued twice in a
\* category; the category's counter is the number of identifiers issued, and
\* once the document is transcoded that is the number of its elements.
C1_SequentialIds ==
    \A c \in Categories :
        LET ids == IdsIssued(c)
        IN  /\ \A k \in 1..Len(ids) : ids[k] = k
            /\ constraint_counters[c] = Len(ids)
            /\ Transcoded => Len(ids) = Len(findall(doc, Tag(c)))

\* a GA1, a CA1 and a second GA1 have been processed: ga1 issued 1 and 2 with
\* a ca1 record in between in the document
C1_Witness ==
    /\ pc = "parsed"
    /\ Len(doc.elems) = 3
    /\ doc.elems[1].tag = "GA1" /\ doc.elems[2].tag = "CA1" /\ doc.elems[3].tag = "GA1"
    /\ IdsIssued("ga1") = <<1, 2>>
    /\ IdsIssued("ca1") = <<1>>

\* the category order the claim fixes
CategoryRank(c) ==
    CASE c = "ca1" -> 1 [] c = "ca2" -> 2 [] c = "ca3" -> 3 [] c = "ca4" -> 4 [] c = "ga1" -> 5
      [] c = "br1" -> 6 [] c = "br2" -> 7 [] c = "fa2" -> 8 [] c = "se1" -> 9

\* teams, then slots, then the phased flag
StructRank(f) ==
    CASE f.pred \in {"team", "num_teams", "team_range"} -> 1
      [] f.pred \in {"slot", "num_slots", "slot_range"} -> 2
      [] OTHER -> 3

\* lines from..Len(fs) are constraint statements only, grouped by category in
\* the fixed order
ConstraintSection(fs, from) ==
    /\ \A i \in from..Len(fs) : IsConstraint(fs[i])
    /\ \A i, j \in from..Len(fs) : i < j => CategoryRank(fs[i].cat) <= CategoryRank(fs[j].cat)

\* lines from..to are structural statements only: teams, then slots, then phased
StructuralSection(fs, from, to) ==
    /\ \A i \in from..to : IsStructural(fs[i])
    /\ \A i, j \in from..to : i < j => StructRank(fs[i]) <= StructRank(fs[j])

\* within each category the records are the document's elements of that
\* category, in document order: the k-th record has identifier k and carries
\* the type and penalty of the k-th element
DocumentOrder(fs) ==
    \A c \in Categories :
        LET Of(name) == LET T(f) == f.pred = "param" /\ f.cat = c /\ f.name = name
                        IN  SelectSeq(fs, T)
            es == findall(doc, Tag(c))
            ty == Of("type")
            pe == Of("penalty")
        IN  /\ Len(ty) = Len(es) /\ Len(pe) = Len(es)
            /\ \A k \in 1..Len(es) :
                  /\ ty[k].cid = k /\ pe[k].cid = k
                  /\ ty[k].text = lower(get(es[k], "type", Params(c)[1].default))
                  /\ pe[k].text = get(es[k], "penalty", <<"1">>)

ContiguousFrom0(ids) == Len(ids) > 0 /\ {ids[i] : i \in 1..Len(ids)} = 0..(Len(ids) - 1)

\* how many statements pred(ints) the facts hold, and how many pred(...)
CountOf(pred, ints) ==
    LET T(f) == IsStmt(f) /\ f.pred = pred /\ f.ints = ints IN Count(facts, T)

CountPred(pred) == LET T(f) == IsStmt(f) /\ f.pred = pred IN Count(facts, T)

C3_For(section, pred, numPred, rangePred) ==
    (section.present /\ ContiguousFrom0(IntsOf(section))) =>
        /\ CountPred(rangePred) = 1
        /\ CountOf(rangePred, <<0, Len(section.ids) - 1>>) = 1
        /\ CountPred(numPred) = 1
        /\ CountOf(numPred, <<Len(section.ids)>>) = 1
        /\ CountPred(pred) = 0

\* C3: for a non-empty team (slot) list contiguous from 0 the structural
\* section holds exactly one range statement team(0..max), exactly one count
\* statement equal to the list length and no membership statement team(i);
\* slots are decided independently of teams.
C3_Claim ==
    StructureDone =>
        /\ C3_For(doc.teams, "team", "num_teams", "team_range")
        /\ C3_For(doc.slots, "slot", "num_slots", "slot_range")

C4_For(section, pred, numPred, rangePred) ==
    (section.present /\ Len(section.ids) > 0 /\ ~ContiguousFrom0(IntsOf(section))) =>
        /\ CountPred(pred) = Len(section.ids)
        /\ CountPred(numPred) = 1
        /\ CountOf(numPred, <<Len(section.ids)>>) = 1
        /\ CountPred(rangePred) = 0

\* C4: for a team (slot) list that is not contiguous from 0 the structural
\* section holds exactly one membership statement per element, exactly one
\* count statement and no range statement.
C4_Claim ==
    StructureDone =>
        /\ C4_For(doc.teams, "team", "num_teams", "team_range")
        /\ C4_For(doc.slots, "slot", "num_slots", "slot_range")

C5_For(section, rangePred) ==
    \A i \in 1..Len(facts) :
        (IsStmt(facts[i]) /\ facts[i].pred = rangePred) =>
            LET ids == IntsOf(section)
            IN  /\ {ids[k] : k \in 1..Len(ids)} = 0..facts[i].ints[2]
                /\ \A j, k \in 1..Len(ids) : j # k => ids[j] # ids[k]

\* C5: a range statement team(0..m) (slot(0..m)) is emitted only when the
\* identifiers collected are exactly 0..m with none repeated, so the range
\* never states an identifier the document does not hold.
C5_Claim ==
    StructureDone => C5_For(doc.teams, "team_range") /\ C5_For(doc.slots, "slot_range")

\* the statements the scenario is said to produce
ScenarioExpected ==
    <<Stmt("team_range", <<0, 3>>), Stmt("num_teams", <<4>>),
      Stmt("slot_range", <<0, 5>>), Stmt("num_slots", <<6>>),
      ParamFact("ca1", 1, "type", <<"h", "a", "r", "d">>, FALSE),
      ParamFact("ca1", 1, "max", <<"2">>, FALSE),
      ParamFact("ca1", 1, "min", <<"0">>, FALSE),
      ParamFact("ca1", 1, "mode", <<"H">>, TRUE),
      ParamFact("ca1", 1, "penalty", <<"1">>, FALSE),
      MemberFact("ca1", 1, "teams", <<0>>), MemberFact("ca1", 1, "teams", <<1>>),
      MemberFact("ca1", 1, "teams", <<2>>), MemberFact("ca1", 1, "teams", <<3>>),
      MemberFact("ca1", 1, "slots", <<0>>), MemberFact("ca1", 1, "slots", <<1>>)>>

\* C6: for the scenario document (teams 0..3, slots 0..5, one CA1 with
\* teams="0..3", slots="0;1", max="2") the statements produced are exactly, in
\* order: team range, team count 4, slot range, slot count 6, the five ca1
\* parameters, four ca1 team statements and two ca1 slot statements.
C6_Claim == (doc = ScenarioDoc /\ pc = "parsed") => Statements = ScenarioExpected

\* a range text of integer parts that are not exactly two: "0..1..2"
MalformedRange(t) ==
    LET parts == split(strip(t), <<".", ".">>)
    IN  /\ contains(t, <<".", ".">>)
        /\ Len(parts) # 2
        /\ \A i \in 1..Len(parts) : intOk(parts[i])

\* a pair token: two integers around one comma
PairToken(m) ==
    LET parts == split(m, <<",">>) IN Len(parts) = 2 /\ intOk(parts[1]) /\ intOk(parts[2])

\* a token without exactly one comma
NotAPair(m) == Len(split(m, <<",">>)) # 2

\* a pair list whose tokens are pairs, except at least one without exactly one comma
MalformedPairs(t) ==
    LET toks == SelectSeq(split(t, <<";">>), NonBlank)
    IN  /\ \A i \in 1..Len(toks) : PairToken(toks[i]) \/ NotAPair(toks[i])
        /\ \E i \in 1..Len(toks) : NotAPair(toks[i])

\* the list-valued attribute l of element e holds malformed list syntax
MalformedAttr(e, l) ==
    \/ l.grammar = "range" /\ MalformedRange(get(e, l.attr, <<>>))
    \/ l.grammar = "meetings" /\ MalformedPairs(get(e, l.attr, <<>>))

CategoryOf(e) == CHOOSE c \in Categories : Tag(c) = e.tag

\* a readable document whose only defect is malformed list syntax
OnlyMalformedLists(d) ==
    /\ d.status = "ok" /\ AllIds(d.teams) /\ AllIds(d.slots)
    /\ \A i \in 1..Len(d.elems) : \A k \in 1..Len(Lists(CategoryOf(d.elems[i]))) :
          LET l == Lists(CategoryOf(d.elems[i]))[k]
          IN  MalformedAttr(d.elems[i], l) \/ ParseBy(l.grammar, get(d.elems[i], l.attr, <<>>)).ok
    /\ \E i \in 1..Len(d.elems) : \E k \in 1..Len(Lists(CategoryOf(d.elems[i]))) :
          MalformedAttr(d.elems[i], Lists(CategoryOf(d.elems[i]))[k])

\* C7: malformed list syntax (a range text that does not split into exactly
\* two integer parts, a pair token without exactly one comma) is never fatal:
\* no exception ends the run, which goes on to write its facts.
C7_Claim ==
    OnlyMalformedLists(doc) =>
        /\ err \notin {"ValueError", "TypeError"}
        /\ pc = "exited" => (exitCode = 0 \/ err = "IOError")

\* a readable document in which every attribute that is present is well formed
\* and the id of some team or slot, or every attribute of some constraint
\* element, is missing
OnlyMissingAttrs(d) ==
    /\ d.status = "ok"
    /\ \A sec \in {d.teams, d.slots} : \A i \in 1..Len(sec.ids) :
          sec.ids[i].present => intOk(sec.ids[i].text)
    /\ \A i \in 1..Len(d.elems) : \A k \in 1..Len(Lists(CategoryOf(d.elems[i]))) :
          LET l == Lists(CategoryOf(d.elems[i]))[k]
          IN  ParseBy(l.grammar, get(d.elems[i], l.attr, <<>>)).ok
    /\ \/ \E sec \in {d.teams, d.slots} : \E i \in 1..Len(sec.ids) : ~sec.ids[i].present
       \/ \E i \in 1..Len(d.elems) : d.elems[i] \in BareElems

\* C8: for every element read (team, slot, constraint element) the absence of
\* an attribute never aborts the run: no exception ends it.
C8_Claim ==
    OnlyMissingAttrs(doc) =>
        /\ err \notin {"ValueError", "TypeError"}
        /\ pc = "exited" => (exitCode = 0 \/ err = "IOError")

\* C9: the output file is touched only once parse_xml_file has transcoded the
\* whole document, and then it holds the facts of the whole document; when
\* the input is missing or not well formed the run ends before write_facts
\* and the output file is never touched.
C9_NoPartialOutput ==
    /\ outStatus # "untouched" =>
          /\ doc.status = "ok"
          /\ pc \in {"written", "exited"}
          /\ \A c \in Categories : Len(IdsIssued(c)) = Len(findall(doc, Tag(c)))
          /\ \E i \in 1..Len(facts) : facts[i] = Comment("Constraints")
    /\ outStatus = "written" => outLines = facts
    /\ doc.status \in {"missing", "malformed"} =>
          /\ outStatus = "untouched"
          /\ pc \in {"start", "exited"}
          /\ pc = "exited" => exitCode = 1

\* the run on an input that is not well-formed XML has ended, the output untouched
C9_Witness ==
    /\ doc.status = "malformed" /\ pc = "exited" /\ err = "ParseError"
    /\ outStatus = "untouched"

\* some id attribute or list-valued attribute of the document makes int() raise
DocRaises(d) ==
    \/ ~AllIds(d.teams) \/ ~AllIds(d.slots)
    \/ \E i \in 1..Len(d.elems) : \E k \in 1..Len(Lists(CategoryOf(d.elems[i]))) :
          LET l == Lists(CategoryOf(d.elems[i]))[k]
          IN  ~ParseBy(l.grammar, get(d.elems[i], l.attr, <<>>)).ok

\* C10 as stated: the exit status is non-zero when the document fails to parse
\* or the input file is missing, and zero in every other run.
C10_Original ==
    pc = "exited" => (exitCode # 0 <=> doc.status \in {"malformed", "missing"})

\* C10 amended: the exit status is non-zero when the document fails to parse,
\* the input file is missing or cannot be read, an uncaught exception (a
\* missing id, a text that is no integer) ends the transcoding, or the output
\* file cannot be written; it is zero in every other run, and exactly then the
\* output file holds all the facts.
C10_ExitStatus ==
    pc = "exited" =>
        /\ exitCode \in {0, 1}
        /\ exitCode # 0 <=> (doc.status # "ok" \/ DocRaises(doc) \/ err = "IOError")
        /\ exitCode = 0 <=> (outStatus = "written" /\ outLines = facts)
        /\ err = "IOError" => (doc.status = "ok" /\ ~DocRaises(doc) /\ outStatus # "written")

\* a run whose document was transcoded and whose output could not be written
C10_Witness ==
    /\ pc = "exited" /\ exitCode = 1 /\ err = "IOError"
    /\ doc.status = "ok" /\ Len(doc.elems) > 0

\* the documented parameters of each category, in order, with the default of
\* each; the type is the first
ClaimedParams(c) ==
    CASE c = "ca1" ->
           <<<<"type", <<"h", "a", "r", "d">>>>, <<"max", <<"0">>>>, <<"min", <<"0">>>>,
             <<"mode", <<"H">>>>, <<"penalty", <<"1">>>>>>
      [] c = "ca2" ->
           <<<<"type", <<"h", "a", "r", "d">>>>, <<"max", <<"0">>>>, <<"min", <<"0">>>>,
             <<"mode1", <<"H">>>>, <<"mode2", <<"G", "L", "O", "B", "A", "L">>>>,
             <<"penalty", <<"1">>>>>>
      [] c = "ca3" ->
           <<<<"type", <<"h", "a", "r", "d">>>>, <<"max", <<"0">>>>, <<"min", <<"0">>>>,
             <<"mode1", <<"H">>>>, <<"mode2", <<"S", "L", "O", "T", "S">>>>,
             <<"intp", <<"1">>>>, <<"penalty", <<"1">>>>>>
      [] c = "ca4" ->
           <<<<"type", <<"h", "a", "r", "d">>>>, <<"max", <<"0">>>>, <<"min", <<"0">>>>,
             <<"mode1", <<"H">>>>, <<"mode2", <<"G", "L", "O", "B", "A", "L">>>>,
             <<"penalty", <<"1">>>>>>
      [] c = "ga1" ->
           <<<<"type", <<"h", "a", "r", "d">>>>, <<"max", <<"1">>>>, <<"min", <<"0">>>>,
             <<"penalty", <<"1">>>>>>
      [] c = "br1" ->
           <<<<"type", <<"h", "a", "r", "d">>>>, <<"intp", <<"0">>>>,
             <<"mode1", <<"L", "E", "Q">>>>, <<"mode2", <<"H", "A">>>>, <<"penalty", <<"1">>>>>>
      [] c = "br2" ->
           <<<<"type", <<"h", "a", "r", "d">>>>, <<"intp", <<"0">>>>,
             <<"homeMode", <<"H", "A">>>>, <<"mode2", <<"L", "E", "Q">>>>, <<"penalty", <<"1">>>>>>
      [] c = "fa2" ->
           <<<<"type", <<"s", "o", "f", "t">>>>, <<"intp", <<"1">>>>, <<"penalty", <<"1">>>>>>
      [] c = "se1" ->
           <<<<"type", <<"s", "o", "f", "t">>>>, <<"min", <<"1">>>>, <<"penalty", <<"1">>>>>>

\* the element states the attribute; the text it states
HasAttr(e, n) == \E i \in 1..Len(e.attrs) : e.attrs[i][1] = n

AttrText(e, n) == e.attrs[CHOOSE i \in 1..Len(e.attrs) : e.attrs[i][1] = n][2]

\* the statements <c>_param(c_k, n, ...) of the facts
ParamFacts(c, k, n) ==
    LET T(f) == IsStmt(f) /\ f.pred = "param" /\ f.cat = c /\ f.cid = k /\ f.name = n
    IN  SelectSeq(facts, T)

\* C11: for every constraint element each parameter attribute other than the
\* type is emitted once, with the category's documented default when the
\* attribute is absent and with its source text unchanged when it is present.
C11_Defaults ==
    pc = "parsed" =>
        \A c \in Categories : \A k \in 1..Len(findall(doc, Tag(c))) :
            \A i \in 2..Len(ClaimedParams(c)) :
                LET e == findall(doc, Tag(c))[k]
                    n == ClaimedParams(c)[i][1]
                    fs == ParamFacts(c, k, n)
                IN  /\ Len(fs) = 1
                    /\ fs[1].text = IF HasAttr(e, n) THEN AttrText(e, n) ELSE ClaimedParams(c)[i][2]

\* a GA1 element that states its penalty and not its max has been transcoded
C11_Witness ==
    /\ pc = "parsed"
    /\ Len(doc.elems) = 1
    /\ doc.elems[1].tag = "GA1"
    /\ HasAttr(doc.elems[1], "penalty") /\ ~HasAttr(doc.elems[1], "max")
    /\ ParamFacts("ga1", 1, "max")[1].text = <<"1">>
    /\ ParamFacts("ga1", 1, "penalty")[1].text = <<"7">>

UpperCase ==
    {"A", "B", "C", "D", "E", "F", "G", "H", "I", "J", "K", "L", "M",
     "N", "O", "P", "Q", "R", "S", "T", "U", "V", "W", "X", "Y", "Z"}

\* t is s with every upper-case letter replaced and nothing else changed
LowerCased(t, s) ==
    /\ Len(t) = Len(s)
    /\ \A i \in 1..Len(t) : t[i] \notin UpperCase /\ (s[i] \notin UpperCase => t[i] = s[i])

\* C12: the type parameter of every record is lower-case whatever the casing
\* in the source; with the type attribute absent it is soft for fa2 and se1
\* records and hard for records of the other seven categories.
C12_TypeLowerCase ==
    pc = "parsed" =>
        \A c \in Categories : \A k \in 1..Len(findall(doc, Tag(c))) :
            LET e == findall(doc, Tag(c))[k]
                fs == ParamFacts(c, k, "type")
            IN  /\ Len(fs) = 1
                /\ IF HasAttr(e, "type") THEN LowerCased(fs[1].text, AttrText(e, "type"))
                   ELSE fs[1].text = IF c \in {"fa2", "se1"} THEN <<"s", "o", "f", "t">>
                                     ELSE <<"h", "a", "r", "d">>

\* an FA2 element whose type is written SOFT has been transcoded to soft
C12_Witness ==
    /\ pc = "parsed"
    /\ Len(doc.elems) = 1
    /\ doc.elems[1].tag = "FA2"
    /\ HasAttr(doc.elems[1], "type") /\ AttrText(doc.elems[1], "type") = <<"S", "O", "F", "T">>
    /\ ParamFacts("fa2", 1, "type")[1].text = <<"s", "o", "f", "t">>

\* the run is over, or has come to write_facts
Settled == pc \in {"parsed", "written", "exited"}

\* the document has one element, of the given tag, without the attributes `others`
OneElem(tag, others) ==
    /\ doc.status = "ok"
    /\ Len(doc.elems) = 1
    /\ doc.elems[1].tag = tag
    /\ \A a \in others : ~HasAttr(doc.elems[1], a)

\* the text of an attribute, the empty text when it is absent
TextOf(e, n) == IF HasAttr(e, n) THEN AttrText(e, n) ELSE <<>>

\* the membership statements of record c_k for the attribute
MemberFacts(c, k, attr) ==
    LET T(f) == IsStmt(f) /\ f.pred = "member" /\ f.cat = c /\ f.cid = k /\ f.name = attr
    IN  SelectSeq(facts, T)

\* what the parse function returned for the attribute of the only element, as
\* the run shows it: the integers of the membership statements, or the exception
Applied(c, attr) ==
    LET ms == MemberFacts(c, 1, attr)
    IN  IF err \in {"none", "IOError"}
        THEN Ok([i \in 1..Len(ms) |-> IF attr = "meetings" THEN ms[i].ints ELSE ms[i].ints[1]])
        ELSE Raise(err)

DigitsOnly(s) == s # <<>> /\ \A i \in 1..Len(s) : s[i] \in DigitSet

\* the text is "a..b" for two integers a and b
WellFormedRange(t) ==
    LET parts == split(strip(t), <<".", ".">>)
    IN  /\ contains(t, <<".", ".">>)
        /\ Len(parts) = 2
        /\ intOk(parts[1]) /\ intOk(parts[2])

\* v is a, a+1, ..., b
Ascending(v, a, b) ==
    /\ Len(v) = IF b >= a THEN b - a + 1 ELSE 0
    /\ \A i \in 1..Len(v) : v[i] = a + i - 1

\* C13: parse_range of a text "a..b" of two integers is the inclusive
\* ascending sequence a, a+1, ..., b; of a text without ".." it is what
\* parse_list gives for the same text; of an empty or absent text it is the
\* empty list.
C13_ParseRange ==
    Settled /\ OneElem("CA1", {"slots"}) =>
        LET t == TextOf(doc.elems[1], "teams")
            r == Applied("ca1", "teams")
            parts == split(strip(t), <<".", ".">>)
        IN  /\ WellFormedRange(t) => r.ok /\ Ascending(r.val, intVal(parts[1]), intVal(parts[2]))
            /\ ~contains(t, <<".", ".">>) => r = parse_list(t)
            /\ t = <<>> => r = Ok(<<>>)

\* the teams "3..6" have been expanded to 3, 4, 5, 6
C13_Witness ==
    /\ pc = "parsed"
    /\ OneElem("CA1", {"slots"})
    /\ TextOf(doc.elems[1], "teams") = <<"3", ".", ".", "6">>
    /\ Applied("ca1", "teams") = Ok(<<3, 4, 5, 6>>)

\* the text is semicolon-separated tokens, each an unsigned integer with
\* blanks around it, or empty
IntTokens(t) ==
    LET toks == split(t, <<";">>)
    IN  \A i \in 1..Len(toks) : strip(toks[i]) = <<>> \/ DigitsOnly(strip(toks[i]))

\* the integers of such a text, read character by character from position i:
\* cur is the value of the digits of the current token, has whether it has any
RECURSIVE ScanInts(_, _, _, _, _)
ScanInts(t, i, cur, has, out) ==
    LET flushed == IF has THEN Append(out, cur) ELSE out
    IN  IF i > Len(t) THEN flushed
        ELSE IF t[i] = ";" THEN ScanInts(t, i + 1, 0, FALSE, flushed)
        ELSE IF t[i] \in DigitSet THEN ScanInts(t, i + 1, cur * 10 + DigitVal(t[i]), TRUE, out)
        ELSE ScanInts(t, i + 1, cur, has, out)

\* C14: parse_list of a semicolon-separated text of integer tokens is the list
\* of those integers, in order and with multiplicity, blanks around a token
\* trimmed and empty tokens contributing nothing; an empty, blank or absent
\* text gives the empty list.
C14_ParseList ==
    Settled /\ OneElem("CA1", {"teams"}) =>
        LET t == TextOf(doc.elems[1], "slots")
            r == Applied("ca1", "slots")
        IN  /\ IntTokens(t) => r = Ok(ScanInts(t, 1, 0, FALSE, <<>>))
            /\ (\A i \in 1..Len(t) : t[i] = " ") => r = Ok(<<>>)

\* the slots " 12 ; 3;" have been read as 12, 3
C14_Witness ==
    /\ pc = "parsed"
    /\ OneElem("CA1", {"teams"})
    /\ TextOf(doc.elems[1], "slots") = <<" ", "1", "2", " ", ";", " ", "3", ";">>
    /\ Applied("ca1", "slots") = Ok(<<12, 3>>)

Commas(m) == Cardinality({i \in 1..Len(m) : m[i] = ","})

\* every token with exactly one comma has an unsigned integer on each side
PairsOrSkipped(t) ==
    LET toks == split(t, <<";">>)
    IN  \A i \in 1..Len(toks) :
            Commas(toks[i]) = 1 =>
                LET parts == split(toks[i], <<",">>)
                IN  DigitsOnly(strip(parts[1])) /\ DigitsOnly(strip(parts[2]))

\* the pairs of such a text, read character by character from position i:
\* n is the number of commas of the current token, h and a the values of the
\* digits before and after its first comma
RECURSIVE ScanPairs(_, _, _, _, _, _)
ScanPairs(t, i, n, h, a, out) ==
    LET flushed == IF n = 1 THEN Append(out, <<h, a>>) ELSE out
    IN  IF i > Len(t) THEN flushed
        ELSE IF t[i] = ";" THEN ScanPairs(t, i + 1, 0, 0, 0, flushed)
        ELSE IF t[i] = "," THEN ScanPairs(t, i + 1, n + 1, h, a, out)
        ELSE IF t[i] \in DigitSet /\ n = 0 THEN ScanPairs(t, i + 1, n, h * 10 + DigitVal(t[i]), a, out)
        ELSE IF t[i] \in DigitSet THEN ScanPairs(t, i + 1, n, h, a * 10 + DigitVal(t[i]), out)
        ELSE ScanPairs(t, i + 1, n, h, a, out)

\* C15: parse_meetings gives, in input order, one (home, away) pair for each
\* semicolon-separated token that has exactly one comma between two integers;
\* a token without a comma or with more than one is skipped and leaves the
\* pairs of the other tokens as they are.
C15_ParseMeetings ==
    Settled /\ OneElem("GA1", {"slots"}) =>
        LET t == TextOf(doc.elems[1], "meetings")
        IN  PairsOrSkipped(t) => Applied("ga1", "meetings") = Ok(ScanPairs(t, 1, 0, 0, 0, <<>>))

\* of the meetings "0,1,0;1,0" the first token is skipped and the second kept
C15_Witness ==
    /\ pc = "parsed"
    /\ OneElem("GA1", {"slots"})
    /\ TextOf(doc.elems[1], "meetings") = <<"0", ",", "1", ",", "0", ";", "1", ",", "0">>
    /\ Applied("ga1", "meetings") = Ok(<<<<1, 0>>>>)

\* the documented list-valued attributes of each category, in order, each with
\* its grammar
ClaimedLists(c) ==
    CASE c = "ca1" -> <<<<"teams", "range">>, <<"slots", "list">>>>
      [] c \in {"ca2", "ca4"} -> <<<<"teams1", "range">>, <<"teams2", "range">>, <<"slots", "list">>>>
      [] c = "ca3" -> <<<<"teams1", "range">>, <<"teams2", "range">>>>
      [] c = "ga1" -> <<<<"meetings", "meetings">>, <<"slots", "list">>>>
      [] c = "br1" -> <<<<"teams", "range">>, <<"slots", "list">>>>
      [] c \in {"br2", "fa2"} -> <<<<"teams", "range">>, <<"slots", "range">>>>
      [] c = "se1" -> <<<<"teams", "range">>>>

ClaimedCategoryOrder == <<"ca1", "ca2", "ca3", "ca4", "ga1", "br1", "br2", "fa2", "se1">>

\* the sequences of ss, one after the other
RECURSIVE Concat(_)
Concat(ss) == IF ss = <<>> THEN <<>> ELSE Head(ss) \o Concat(Tail(ss))

\* what a statement is about: its predicate, record, parameter or attribute
\* name and integers
Shape(f) == <<f.pred, f.cat, f.cid, f.name, f.ints>>

\* the block of the k-th element e of category c: its parameters in order, then
\* the members of each list attribute in list order, all with identifier k
ExpectedBlock(c, k, e) ==
    LET ps == ClaimedParams(c)
        ls == ClaimedLists(c)
        members(l) ==
            LET v == ParseBy(l[2], TextOf(e, l[1])).val
            IN  [i \in 1..Len(v) |-> <<"member", c, k, l[1], IF l[2] = "meetings" THEN v[i] ELSE <<v[i]>>>>]
    IN  [i \in 1..Len(ps) |-> <<"param", c, k, ps[i][1], <<>>>>]
        \o Concat([j \in 1..Len(ls) |-> members(ls[j])])

\* the blocks of all elements: category by category, in document order
ExpectedBlocks ==
    LET OfCategory(c) ==
            LET es == findall(doc, Tag(c))
            IN  Concat([k \in 1..Len(es) |-> ExpectedBlock(c, k, es[k])])
    IN  Concat([n \in 1..Len(ClaimedCategoryOrder) |-> OfCategory(ClaimedCategoryOrder[n])])

\* C16: every constraint element yields one contiguous block of statements:
\* the category's parameter statements in fixed order, then one membership
\* statement per element of each parsed list attribute in list order, each
\* with the identifier allocated for that element; the blocks of two records
\* are never interleaved.
C16_Blocks ==
    pc = "parsed" =>
        LET cs == SelectSeq(facts, IsConstraint)
        IN  [i \in 1..Len(cs) |-> Shape(cs[i])] = ExpectedBlocks

\* two GA1 elements with meetings and slots, and a CA1 element between them
C16_Witness ==
    /\ pc = "parsed"
    /\ Len(doc.elems) = 3
    /\ doc.elems[1].tag = "GA1" /\ doc.elems[2].tag = "CA1" /\ doc.elems[3].tag = "GA1"
    /\ Len(MemberFacts("ga1", 2, "meetings")) = 2
    /\ Len(MemberFacts("ga1", 2, "slots")) = 2
    /\ Len(MemberFacts("ca1", 1, "teams")) = 2

IsPhased(f) == IsStmt(f) /\ f.pred = "phased"

\* C17: the marker statement phased. is emitted once when the document's
\* Format section has a gameMode element whose text is P, and not at all for
\* any other text, a missing gameMode element or a missing Format section.
C17_Phased ==
    StructureDone =>
        Count(facts, IsPhased) =
            IF doc.format.present /\ doc.format.gameMode.present /\ doc.format.gameMode.text = <<"P">>
            THEN 1 ELSE 0

\* a document with game mode P has been transcoded, with one marker
C17_Witness ==
    /\ pc = "parsed"
    /\ doc.format.present /\ doc.format.gameMode.present /\ doc.format.gameMode.text = <<"P">>
    /\ Count(facts, IsPhased) = 1

\* C18: a run starts with all nine counters at 0 and an empty fact list,
\* whatever ran before; a category of which the document has no element keeps
\* its counter at 0 and gets no statement.
C18_FreshCounters ==
    /\ pc = "start" => facts = <<>> /\ \A c \in Categories : constraint_counters[c] = 0
    /\ \A c \in Categories :
           findall(doc, Tag(c)) = <<>> =>
               /\ constraint_counters[c] = 0
               /\ \A i \in 1..Len(facts) : facts[i].cat # c

\* a document with CA1 elements and no GA1 element has been transcoded
C18_Witness ==
    /\ pc = "parsed"
    /\ findall(doc, "CA1") # <<>> /\ findall(doc, "GA1") = <<>>
    /\ constraint_counters["ca1"] = Len(findall(doc, "CA1"))
    /\ constraint_counters["ga1"] = 0
    /\ \E i \in 1..Len(facts) : facts[i].cat = "ca1"

\* the lines of the output that begin with %
CommentLines == {i \in 1..Len(outLines) : outLines[i].kind = "comment"}

FirstCallWitnesses ==
    LET calls == IF json_file.data.Call.present THEN json_file.data.Call.val ELSE <<>>
    IN  IF calls # <<>> /\ calls[1].Witnesses.present THEN calls[1].Witnesses.val ELSE <<>>

\* the witnesses that carry a non-empty Costs list, and the first cost of one
Costed == {i \in 1..Len(FirstCallWitnesses) :
              FirstCallWitnesses[i].Costs.present /\ FirstCallWitnesses[i].Costs.val # <<>>}

FirstCost(i) == FirstCallWitnesses[i].Costs.val[1]

\* the schedule tuples of the atoms of the i-th witness
ScheduleOf(i) ==
    IF FirstCallWitnesses[i].Value.present THEN schedule_data_of(FirstCallWitnesses[i].Value.val) ELSE <<>>

Solved == json_file.data.Result.present /\ json_file.data.Result.val \in {"SATISFIABLE", "OPTIMUM FOUND"}

\* C20: when Result is SATISFIABLE or OPTIMUM FOUND, the cost and schedule
\* returned by process_json_file are those of the witness of the first call
\* whose first cost is minimal among the witnesses with a non-empty Costs
\* list, the earliest one on ties; a witness without Costs is never chosen;
\* for any other Result the cost is None and the schedule is empty.
C20_BestWitness ==
    apc = "returned" /\ solution_data.some =>
        IF Solved /\ Costed # {}
        THEN \E i \in Costed :
                /\ \A j \in Costed : FirstCost(i) < FirstCost(j) \/ (FirstCost(i) = FirstCost(j) /\ i <= j)
                /\ solution_data.val.cost = Some(FirstCost(i))
                /\ solution_data.val.schedule_data = ScheduleOf(i)
        ELSE /\ solution_data.val.cost = None
             /\ solution_data.val.schedule_data = <<>>

\* three witnesses: one without Costs, then two of equal cost and different
\* atoms; the second one's schedule has been returned
C20_Witness ==
    /\ apc = "returned" /\ solution_data.some /\ Solved
    /\ Len(FirstCallWitnesses) = 3
    /\ Costed = {2, 3}
    /\ FirstCost(2) = FirstCost(3)
    /\ ScheduleOf(2) # ScheduleOf(3)
    /\ solution_data.val.schedule_data = ScheduleOf(2)
    /\ solution_data.val.cost = Some(FirstCost(2))

\* ---------------------------------------------------------- C26, C27
\* the call of convert_json_to_xml on the current file is over
Converted == apc \in {"loop", "done"} /\ file_index > 0

ExtractedSchedule == IF solution_data.some THEN solution_data.val.schedule_data ELSE <<>>

WrittenGames == xml_solutions[Len(xml_solutions)].root.Games

\* the i-th ScheduledMatch of the file as a tuple of numbers
MatchTuple(i) ==
    <<intVal(AttrText(WrittenGames[i], "home")), intVal(AttrText(WrittenGames[i], "away")),
      intVal(AttrText(WrittenGames[i], "slot"))>>

MatchTuples == [i \in 1..Len(WrittenGames) |-> MatchTuple(i)]

\* C27: the written file has one ScheduledMatch per schedule tuple, in
\* non-decreasing slot order, and for every slot the matches of that slot are
\* the tuples of that slot in the order of the witness.
C27_StableSort ==
    Converted /\ converted = "True" =>
        /\ Len(WrittenGames) = Len(ExtractedSchedule)
        /\ \A i \in 1..Len(WrittenGames) : WrittenGames[i].tag = "ScheduledMatch"
        /\ \A i \in 1..Len(WrittenGames) - 1 : MatchTuple(i)[3] <= MatchTuple(i + 1)[3]
        /\ \A k \in {ExtractedSchedule[i][3] : i \in 1..Len(ExtractedSchedule)} :
                LET InSlot(t) == t[3] = k
                IN  SelectSeq(MatchTuples, InSlot) = SelectSeq(ExtractedSchedule, InSlot)

\* six tuples out of slot order, three in each of two slots, one of them twice
C27_Witness ==
    /\ Converted /\ converted = "True"
    /\ Len(ExtractedSchedule) = 6
    /\ ExtractedSchedule[1][3] > ExtractedSchedule[2][3]
    /\ ExtractedSchedule[1] = ExtractedSchedule[5]
    /\ ExtractedSchedule[1][3] = ExtractedSchedule[3][3]
    /\ ExtractedSchedule[1] # ExtractedSchedule[3]
    /\ Len(WrittenGames) = 6

\* ------------------------------------------------------ C21, C22, C28
MinFirstCost == CHOOSE c \in {FirstCost(i) : i \in Costed} : \A j \in Costed : c <= FirstCost(j)

\* C21: for a result file whose Result is SATISFIABLE or OPTIMUM FOUND, the
\* cost in the row of process_json_results is the minimum first cost over the
\* witnesses of the first call, the cost process_json_file selects.
C21_RecordedCost ==
    cpc # "start" /\ analysis_results # <<>> /\ Solved =>
        /\ analysis_results[1].cost = process_json_file_result(json_file).val.cost
        /\ Costed # {} => analysis_results[1].cost = Some(MinFirstCost)

AspCost ==
    IF process_json_file_result(json_file).some THEN process_json_file_result(json_file).val.cost
    ELSE None

\* C22: extract_asp_cost_from_json returns the cost process_json_file reports
\* for the file, and None exactly when process_json_file reports no cost.
C22_SameCost == cpc = "done" /\ cost_lookup.some => cost_lookup.val.cost = AspCost

\* C28: for a result name that extract_instance_info accepts, the name of the
\* solution file is accepted by extract_instance_from_solution_name with the
\* same category up to case, number and config, and extract_asp_cost_from_json
\* builds the name of the result file from it.
C28_RoundTrip ==
    cpc = "done" /\ extract_instance_info(json_file.filename).some =>
        LET instance_info == extract_instance_info(json_file.filename).val
        IN  /\ solution_name.some
            /\ [i \in 1..Len(solution_name.val[1]) |-> lowerAscii(solution_name.val[1][i])]
                   = instance_info[1]
            /\ intVal(solution_name.val[2]) = instance_info[2]
            /\ solution_name.val[3] = instance_info[3]
            /\ cost_lookup.val.json_filename = Some(json_file.filename)

\* ------------------------------------------------------------------ C23
\* C23: when the validator returns a return code other than 0 and an objective
\* was extracted from its output, validation_successful is True and
\* validation_objective is that value; status is VALID exactly when the
\* return code is 0.
C23_Calculated ==
    vpc = "returned" /\ robinx.outcome = "completed" =>
        /\ robinx.returncode # 0 /\ extract_objective_from_output(robinx.stdout \o robinx.stderr).some
                => /\ validation_result.val.validation_successful
                   /\ validation_result.val.validation_objective
                          = extract_objective_from_output(robinx.stdout \o robinx.stderr)
        /\ validation_result.val.status = <<"VALID">> <=> robinx.returncode = 0

\* ------------------------------------------------------------ C24, C25
\* a run of the script that counts as a success
Succeeded(script) == script_runs[script].outcome = "completed" /\ script_runs[script].returncode = 0

\* C24: the steps are started in the order extract_bounds.py, asp_to_xml.py,
\* analyze_results.py, and a step is started only when every earlier step
\* succeeded; once main has returned, no step after the first failing one
\* has been run.
C24_StepOrder ==
    /\ Len(steps_started) <= 3
    /\ \A i \in 1..Len(steps_started) :
           /\ steps_started[i] = <<"extract_bounds.py", "asp_to_xml.py", "analyze_results.py">>[i]
           /\ \A j \in 1..(i - 1) : Succeeded(steps_started[j])

\* the second step timed out after the first succeeded; main has returned
C24_Witness ==
    /\ main_return.some
    /\ steps_started = <<"extract_bounds.py", "asp_to_xml.py">>
    /\ script_runs["asp_to_xml.py"].outcome = "timeout"
    /\ Succeeded("analyze_results.py")

AllSucceeded ==
    /\ required_paths = RequiredPaths
    /\ \A script \in {"extract_bounds.py", "asp_to_xml.py", "analyze_results.py"} : Succeeded(script)

\* C25: main writes pipeline_report.txt and returns 0 exactly when the
\* dependency check passed and all three steps succeeded; in every other run
\* it returns 1 and writes no report; when the dependency check fails no
\* step is run and no output directory is created.
C25_Report ==
    /\ report => AllSucceeded
    /\ main_return.some =>
           IF AllSucceeded THEN report /\ main_return.val = 0
           ELSE ~report /\ main_return.val = 1
    /\ required_paths # RequiredPaths => steps_started = <<>> /\ directories = {}

\* a complete run: three steps, the directories, the report, return value 0
C25_Witness ==
    /\ main_return = Some(0)
    /\ report
    /\ Len(steps_started) = 3
    /\ directories = {"xml_solutions", "reports"}

\* ------------------------------------------------------------ C29, C30
\* the lines of the output of the i-th file that hold a verdict, in lower case
VerdictLines(i) ==
    LET lines == split(xml_files[i].run.stdout, <<"\n">>)
        low(k) == [c \in 1..Len(lines[k]) |-> lowerAscii(lines[k][c])]
        T(k) == contains(low(k), <<"v", "a", "l", "i", "d">>)
    IN  [k \in {n \in 1..Len(lines) : T(n)} |-> low(k)]

\* C29: when the validator exits with return code 0, an output line that
\* contains 'invalid' sets ValidationStatus to INVALID and a line that
\* contains 'valid' and not 'invalid' sets it to VALID: the status of the
\* row is that of the last such line.
C29_Invalid ==
    \A i \in 1..Len(results) :
        /\ results[i].XMLFile = xml_files[i].name
        /\ xml_files[i].run.outcome = "completed"
        /\ xml_files[i].run.returncode = 0
        /\ DOMAIN VerdictLines(i) # {}
        => LET k == CHOOSE n \in DOMAIN VerdictLines(i) : \A m \in DOMAIN VerdictLines(i) : m <= n
           IN  results[i].ValidationStatus =
                   IF contains(VerdictLines(i)[k], <<"i", "n", "v", "a", "l", "i", "d">>)
                   THEN "INVALID" ELSE "VALID"

\* C30: one row is appended per XML file, the loop is never aborted, and in
\* every row, those with status ERROR included, Instance is the stem of the
\* row's own XMLFile without "_SA".
C30_OwnInstance ==
    /\ spc \in {"loop", "saved"}
    /\ Len(results) = sa_index
    /\ spc = "saved" => Len(results) = Len(xml_files)
    /\ \A i \in 1..Len(results) :
           /\ results[i].XMLFile = xml_files[i].name
           /\ results[i].Instance =
                  remove(SubSeq(results[i].XMLFile, 1, Len(results[i].XMLFile) - 4), <<"_", "S", "A">>)

====
